---- MODULE Spec2Model ----
(***************************************************************************)
(* Model of routes/generate.js of ResumeToSite: the two request handlers   *)
(* POST /upload (batch) and POST /upload-stream (SSE relay), the Supabase  *)
(* tracking helpers and the Gemini / Anthropic adapters.                   *)
(*                                                                         *)
(* Texts are sequences of one-character strings, so that the regular       *)
(* expressions of the source can be evaluated character by character.      *)
(***************************************************************************)
EXTENDS Integers, Sequences, FiniteSets, TLC

\* ------------------------------------------------------------------------
\* Bounds of the model
\* ------------------------------------------------------------------------
\* longest sequence of chunks the backend stream delivers in one session
MaxFrags == 3
\* number of direct calls of saveGenerationResult in the unit specification
MaxCalls == 2
\* longest text handed to cleanResumeData on its own
MaxTextLen == 5
\* the length cap cleanResumeData is run with on its own, in place of 15000
CapUnderTest == 3
\* requests whose PDF decode steps run side by side
NumDecodes == 2
\* most console.warn calls followed while they do
MaxWarns == 2
\* requests the server handles side by side
NumRequests == 2
\* most fragments a streaming handler takes before the one that ends its
\* stream, when requests are handled side by side
MaxPulls == 1

\* ------------------------------------------------------------------------
\* Values
\* ------------------------------------------------------------------------
\* null and undefined where a text is expected (texts are sequences of
\* one-character strings, so neither is a text)
Null == <<"null">>
Absent == <<"undefined">>
\* the null upload id; ids assigned by the tracking store are 1, 2, ...
NullId == 0

\* the backtick character (U+0060)
BT == "BACKTICK"
\* three backticks
FenceText == <<BT, BT, BT>>
\* an opening fence with the html tag and a newline
FenceOpenText == FenceText \o <<"h", "t", "m", "l", "\n">>

\* JavaScript \s and String.prototype.trim() white space (the part in use)
IsWs(c) == c \in {" ", "\n", "\t", "\r"}

RECURSIVE LTrimWs(_)
LTrimWs(s) == IF s # <<>> /\ IsWs(Head(s)) THEN LTrimWs(Tail(s)) ELSE s

RECURSIVE RTrimWs(_)
RTrimWs(s) ==
  IF s # <<>> /\ IsWs(s[Len(s)]) THEN RTrimWs(SubSeq(s, 1, Len(s) - 1)) ELSE s

\* String.prototype.trim()
Trim(s) == RTrimWs(LTrimWs(s))

\* first replace of the fence stripping: at the start of the text, three
\* backticks, then htm, then an optional l (the ? binds to the l only),
\* then any white space; letters are matched case-insensitively
StripOpenFence(s) ==
  IF /\ Len(s) >= 6
     /\ SubSeq(s, 1, 3) = FenceText
     /\ s[4] \in {"h", "H"}
     /\ s[5] \in {"t", "T"}
     /\ s[6] \in {"m", "M"}
  THEN LET n == IF Len(s) >= 7 /\ s[7] \in {"l", "L"} THEN 7 ELSE 6
       IN  LTrimWs(SubSeq(s, n + 1, Len(s)))
  ELSE s

\* second replace of the fence stripping: the last three backticks when
\* only white space follows them, with the white space on both sides
StripCloseFence(s) ==
  LET t == RTrimWs(s)
  IN  IF Len(t) >= 3 /\ SubSeq(t, Len(t) - 2, Len(t)) = FenceText
      THEN RTrimWs(SubSeq(t, 1, Len(t) - 3))
      ELSE s

\* both replaces, then trim
StripFences(s) == Trim(StripCloseFence(StripOpenFence(s)))

\* JavaScript truthiness of a text-or-missing value
Truthy(v) == v # Absent /\ v # Null /\ v # <<>>

\* first truthy value of a list, else the empty text
FirstTruthy(vs) ==
  IF \E i \in 1..Len(vs) : Truthy(vs[i])
  THEN vs[CHOOSE i \in 1..Len(vs) :
            Truthy(vs[i]) /\ \A j \in 1..(i - 1) : ~Truthy(vs[j])]
  ELSE <<>>

\* ------------------------------------------------------------------------
\* Chunks of the Gemini stream.  A chunk is null or an object with the
\* fields the relay looks at: text, candidates[0].content.parts[0].text,
\* response.candidates[0].content.parts[0].text and parts[0].text.
\* ------------------------------------------------------------------------
MkChunk(t, c, r, p) ==
  [obj |-> TRUE, text |-> t, cand |-> c, resp |-> r, parts |-> p]

NullChunk ==
  [obj |-> FALSE, text |-> Absent, cand |-> Absent, resp |-> Absent,
   parts |-> Absent]

Chunks ==
  { MkChunk(<<"a">>, Absent, Absent, Absent),
    MkChunk(Absent, Absent, FenceOpenText, Absent),
    MkChunk(Absent, Absent, Absent, FenceText),
    MkChunk(<<>>, <<" ">>, <<"a">>, Absent),
    MkChunk(Absent, Absent, Absent, Absent),
    NullChunk }

\* the text the relay extracts from one chunk
ChunkText(chunk) ==
  LET text == IF chunk.obj /\ chunk.text # Absent THEN chunk.text ELSE <<>>
  IN  IF text = <<>> /\ chunk.obj
      THEN FirstTruthy(<<chunk.cand, chunk.resp, chunk.parts>>)
      ELSE text

\* ------------------------------------------------------------------------
\* Requests
\* ------------------------------------------------------------------------
MimeTxt == "text/plain"
MimePdf == "application/pdf"
MimeDocx ==
  "application/vnd.openxmlformats-officedocument.wordprocessingml.document"
MimePng == "image/png"
MimeDoc == "application/msword"

MkFile(e, m, t, n, x) ==
  [ext |-> e, mimetype |-> m, tempFilePath |-> t, size |-> n, text |-> x]

\* req.files.resume: the extension of its name, its declared type, whether
\* express-fileupload left it in a temp file, its size in bytes and its
\* bytes read as UTF-8
Files ==
  { MkFile(".txt", MimeTxt, FALSE, 50, <<"a">>),
    MkFile(".txt", MimePng, FALSE, 200, <<" ", "\n">>),
    MkFile(".pdf", MimeTxt, TRUE, 200, <<"a">>),
    MkFile(".pdf", MimePdf, TRUE, 200, <<"a">>),
    MkFile(".pdf", MimePdf, FALSE, 50, <<"a">>),
    MkFile(".docx", MimeDocx, FALSE, 200, <<"a">>),
    MkFile(".docx", MimePdf, FALSE, 200, <<"a">>),
    MkFile(".png", MimePng, FALSE, 200, <<"a">>),
    MkFile(".doc", MimeDoc, FALSE, 200, <<"a">>),
    MkFile(".txt", MimeTxt, TRUE, 0, <<>>),
    MkFile(".txt", MimeTxt, FALSE, 0, <<>>) }

\* extractTextFromFile has not been called on its own
NoDecode == [done |-> FALSE]

\* no error
NoError == [message |-> "no error", status |-> 0]

NoFile ==
  [ext |-> "", mimetype |-> "", tempFilePath |-> FALSE, size |-> 0,
   text |-> <<>>]

Routes == {"/upload", "/upload-stream"}

\* outcomes of a call to an external service
Outcomes == {"ok", "error", "raise"}

\* messages of the errors the Gemini stream raises (e.message; may be empty)
StreamErrors == {"quota exceeded", ""}

\* ------------------------------------------------------------------------
\* State
\* ------------------------------------------------------------------------
VARIABLES
  supabase,            \* module level: the Supabase client is not null
  GEMINI_API_KEY,      \* module level: the key is a non-empty string
  LLM_API_KEY,         \* module level: "", the placeholder or a key
  pdfParse,            \* module level: pdf-parse could be required
  mammoth,             \* module level: mammoth could be required
  bucketExists,        \* blob store: the bucket exists
  blobs,               \* blob store: the objects stored, in order
  resume_uploads,      \* tracking store: rows of public.resume_uploads
  generation_results,  \* tracking store: rows of public.generation_results
  pc,                  \* position of the request handler
  route,               \* the route of the request
  file,                \* req.files.resume
  storedPath,          \* local of the handler
  resumeUploadId,      \* local of the handler
  rawText,             \* local of the handler
  cleanedText,         \* local of the handler
  stream,              \* the Gemini stream: unopened, open, ended, raised
  pulled,              \* the chunks the relay has taken from the stream
  chunkCount,          \* local of streamWithGemini
  fullHtml,            \* local of streamWithGemini
  cleanedHtml,         \* local of streamWithGemini
  llmRaw,              \* the text of the backend's answer to the batch
                       \* call, before fence stripping (Absent: no answer)
  backendError,        \* the error the backend rejected the batch call with
                       \* (NoError: the call was not made, or it answered)
  html,                \* local of the /upload handler
  res,                 \* the HTTP response
  disconnectedAt,      \* where the handler was when the client went away
                       \* ("": the client is still there)
  ops,                 \* the external calls made so far, in order
  call,                \* the last direct call of saveGenerationResult
  probe,               \* the text cleanResumeData was called with on its
                       \* own, and what it returned for it and for its result
  post,                \* one backend output put through the post-processing
                       \* of the batch adapter and through that of the relay
  console_warn,        \* process-wide: the function console.warn holds
                       \* (0: the original one, r: the filter of request r)
  origWarn,            \* per request: the local origWarn of its PDF branch
  decoding,            \* per request: where its PDF branch is
  warnLog,             \* the console.warn calls made, and whether each was
                       \* printed by the original function
  handlers,            \* per request handled side by side: where its handler
                       \* is, its route, its locals and the calls it made
  decoded,             \* the file extractTextFromFile was called with on its
                       \* own, the parser's answer, and what it returned
  objects              \* blob store, when several requests share it: the
                       \* objects stored, each with its name and its uploader

cfgVars == <<supabase, GEMINI_API_KEY, LLM_API_KEY, pdfParse, mammoth>>
storeVars == <<bucketExists, blobs, resume_uploads, generation_results>>
reqVars ==
  <<route, file, storedPath, resumeUploadId, rawText, cleanedText, llmRaw,
    backendError, html>>
relayVars == <<stream, pulled, chunkCount, fullHtml, cleanedHtml>>
warnVars == <<console_warn, origWarn, decoding, warnLog>>
serverVars == <<handlers, objects>>
decodeVars == <<decoded>>
unitVars == <<call, probe, post, warnVars, serverVars, decodeVars>>
vars ==
  <<cfgVars, storeVars, reqVars, relayVars, pc, res, disconnectedAt, ops,
    unitVars>>

\* ------------------------------------------------------------------------
\* The response object
\* ------------------------------------------------------------------------
NoBody == [kind |-> "none", message |-> "", html |-> <<>>, storedPath |-> ""]

FreshRes ==
  [status |-> 0, body |-> NoBody, headersSent |-> FALSE, sse |-> FALSE,
   ended |-> FALSE, events |-> <<>>]

\* res.status(st).json({ error: { message } })
ResJsonError(r, st, msg) ==
  [r EXCEPT !.status = st, !.headersSent = TRUE, !.ended = TRUE,
            !.body = [NoBody EXCEPT !.kind = "error", !.message = msg]]

\* the four res.setHeader calls and res.flushHeaders()
ResOpenSse(r) == [r EXCEPT !.sse = TRUE, !.headersSent = TRUE, !.status = 200]

\* res.write('data: ' + JSON.stringify(payload) + '\n\n'): the first write
\* sends the headers
ResWrite(r, ev) ==
  [r EXCEPT !.events = Append(@, ev), !.headersSent = TRUE,
            !.status = IF @ = 0 THEN 200 ELSE @]

\* res.end()
ResEnd(r) == [r EXCEPT !.ended = TRUE, !.headersSent = TRUE,
                       !.status = IF @ = 0 THEN 200 ELSE @]

ChunkEvent(text) == [kind |-> "chunk", text |-> text, message |-> ""]
DoneEvent == [kind |-> "done", text |-> <<>>, message |-> ""]
ErrorEvent(msg) == [kind |-> "error", text |-> <<>>, message |-> msg]

\* e.message || fallback
MessageOr(msg, fallback) == IF msg = "" THEN fallback ELSE msg

\* no direct call of saveGenerationResult has been made
NoCall ==
  [made |-> FALSE, id |-> NullId, llmModel |-> "", llmHtml |-> <<>>,
   attempted |-> FALSE, inserted |-> FALSE, threw |-> FALSE]

\* cleanResumeData has not been called on its own
NoProbe == [applied |-> 0, input |-> <<>>, once |-> <<>>, twice |-> <<>>]

\* the requests handled side by side
Requests == 1..NumRequests

\* a handler that has not started
IdleHandler ==
  [pc |-> "idle", route |-> "", storedPath |-> 0, resumeUploadId |-> NullId,
   html |-> <<>>, ops |-> <<>>]

\* the requests whose PDF branches overlap
Decoders == 1..NumDecodes
\* the function console.warn holds when the process starts
OriginalWarn == 0

\* no backend output has been post-processed on its own
NoPost ==
  [step |-> 0, frags |-> <<>>, batch |-> <<>>, batchSaved |-> Null,
   relay |-> <<>>, relaySaved |-> Null]

\* ------------------------------------------------------------------------
\* Init: the module has been loaded, no request has arrived
\* ------------------------------------------------------------------------
\* the configurations the module is loaded with: GEMINI_API_KEY set,
\* LLM_API_KEY, pdf-parse installed, mammoth installed
KeyConfigs ==
  { <<TRUE, "YOUR_LLM_API_KEY_HERE", TRUE, TRUE>>,
    <<TRUE, "sk-key", FALSE, FALSE>>,
    <<FALSE, "sk-key", TRUE, TRUE>>,
    <<FALSE, "YOUR_LLM_API_KEY_HERE", TRUE, FALSE>>,
    <<FALSE, "", FALSE, TRUE>> }

Init ==
  /\ supabase \in BOOLEAN
  /\ \E k \in KeyConfigs :
       /\ GEMINI_API_KEY = k[1]
       /\ LLM_API_KEY = k[2]
       /\ pdfParse = k[3]
       /\ mammoth = k[4]
  /\ bucketExists \in (IF supabase THEN BOOLEAN ELSE {FALSE})
  /\ blobs = <<>>
  /\ resume_uploads = <<>>
  /\ generation_results = <<>>
  /\ pc = "idle"
  /\ route = ""
  /\ file = NoFile
  /\ storedPath = ""
  /\ resumeUploadId = NullId
  /\ rawText = <<>>
  /\ cleanedText = <<>>
  /\ stream = "unopened"
  /\ pulled = <<>>
  /\ chunkCount = 0
  /\ fullHtml = <<>>
  /\ cleanedHtml = <<>>
  /\ llmRaw = Absent
  /\ backendError = NoError
  /\ html = <<>>
  /\ res = FreshRes
  /\ disconnectedAt = ""
  /\ ops = <<>>
  /\ call = NoCall
  /\ probe = NoProbe
  /\ post = NoPost
  /\ console_warn = OriginalWarn
  /\ origWarn = [r \in Decoders |-> OriginalWarn]
  /\ decoding = [r \in Decoders |-> "idle"]
  /\ warnLog = <<>>
  /\ handlers = [r \in Requests |-> IdleHandler]
  /\ objects = {}
  /\ decoded = NoDecode

\* ------------------------------------------------------------------------
\* Errors and the catch blocks of the two routes
\* ------------------------------------------------------------------------
\* an Error: its message and its status property (0: it has none)
Err(msg, st) == [message |-> msg, status |-> st]

\* catch block of router.post('/upload')
CatchUpload(r, err) ==
  LET st == IF err.status # 0 THEN err.status ELSE 500
      msg == IF st = 401 THEN "Invalid API key."
             ELSE MessageOr(err.message, "Failed to generate website")
  IN  ResJsonError(r, st, msg)

\* faulty variant: the test of res.headersSent is missing
CatchUploadStream_NoHeaderCheck(r, err) ==
  ResJsonError(r, 500, MessageOr(err.message, "Stream failed"))

\* catch block of router.post('/upload-stream')
CatchUploadStream(r, err) ==
  IF ~r.headersSent
  THEN ResJsonError(r, 500, MessageOr(err.message, "Stream failed"))
  ELSE r

\* an error thrown inside the try block of the current route
RouteCatch(err) ==
  /\ res' = IF route = "/upload" THEN CatchUpload(res, err)
            ELSE CatchUploadStream(res, err)
  /\ pc' = "finished"

\* the same, for the first step, where the route is being set
RouteCatchOn(rt, err) ==
  /\ res' = IF rt = "/upload" THEN CatchUpload(res, err)
            ELSE CatchUploadStream(res, err)
  /\ pc' = "finished"

\* ------------------------------------------------------------------------
\* Both routes, up to the first service call: the request is validated and
\* the file is read into a buffer
\* ------------------------------------------------------------------------
\* faulty variant: the test of the buffer read from the temporary file is
\* missing
Receive_NoEmptyCheck(rt, hasFile, f, readOk) ==
  /\ pc = "idle"
  /\ route' = rt
  /\ UNCHANGED <<cfgVars, unitVars, storeVars, storedPath, resumeUploadId, rawText,
                 cleanedText, llmRaw, backendError, html, relayVars, disconnectedAt, ops>>
  /\ IF ~hasFile
     THEN /\ res' = ResJsonError(res, 400,
                                 "No resume file uploaded. Use field name \"resume\".")
          /\ pc' = "finished"
          /\ file' = NoFile
     ELSE IF f.tempFilePath /\ ~readOk
     THEN \* fs.readFile rejects
          /\ RouteCatchOn(rt, Err("ENOENT", 0))
          /\ file' = NoFile
     ELSE IF ~f.tempFilePath /\ f.size = 0
     THEN /\ res' = ResJsonError(res, 400,
                                 IF rt = "/upload"
                                 THEN "Uploaded file has no data. Please try again or use a different file."
                                 ELSE "Uploaded file has no data.")
          /\ pc' = "finished"
          /\ file' = NoFile
     ELSE /\ file' = f
          /\ pc' = "store"
          /\ res' = res

Receive(rt, hasFile, f, readOk) ==
  /\ pc = "idle"
  /\ route' = rt
  /\ UNCHANGED <<cfgVars, unitVars, storeVars, storedPath, resumeUploadId, rawText,
                 cleanedText, llmRaw, backendError, html, relayVars, disconnectedAt, ops>>
  /\ IF ~hasFile
     THEN /\ res' = ResJsonError(res, 400,
                                 "No resume file uploaded. Use field name \"resume\".")
          /\ pc' = "finished"
          /\ file' = NoFile
     ELSE IF f.tempFilePath /\ ~readOk
     THEN \* fs.readFile rejects
          /\ RouteCatchOn(rt, Err("ENOENT", 0))
          /\ file' = NoFile
     ELSE IF ~f.tempFilePath /\ f.size = 0
     THEN /\ res' = ResJsonError(res, 400,
                                 IF rt = "/upload"
                                 THEN "Uploaded file has no data. Please try again or use a different file."
                                 ELSE "Uploaded file has no data.")
          /\ pc' = "finished"
          /\ file' = NoFile
     ELSE IF f.size = 0
     THEN /\ res' = ResJsonError(res, 400,
                                 IF rt = "/upload"
                                 THEN "File is empty. Please upload a valid resume file."
                                 ELSE "File is empty.")
          /\ pc' = "finished"
          /\ file' = NoFile
     ELSE /\ file' = f
          /\ pc' = "store"
          /\ res' = res

\* ------------------------------------------------------------------------
\* storeFileInSupabase: upload, on a missing bucket create it and retry
\* ------------------------------------------------------------------------
\* what the first upload can answer
FirstUploadOutcomes ==
  IF bucketExists THEN {"ok", "error", "raise"} ELSE {"notfound", "raise"}

\* the calls made, whether the object was stored, whether the bucket exists
\* afterwards and whether the function threw, for the outcomes up1 of the
\* first upload, cr of createBucket and up2 of the second upload
StoreRun(up1, cr, up2) ==
  IF up1 = "notfound"
  THEN IF cr = "ok"
       THEN [calls |-> <<"storage.upload", "storage.createBucket",
                         "storage.upload">>,
             stored |-> up2 = "ok", bucket |-> TRUE, threw |-> up2 = "raise"]
       ELSE [calls |-> <<"storage.upload", "storage.createBucket">>,
             stored |-> FALSE, bucket |-> FALSE, threw |-> cr = "raise"]
  ELSE [calls |-> <<"storage.upload">>, stored |-> up1 = "ok",
        bucket |-> bucketExists, threw |-> up1 = "raise"]

StoreFile(up1, cr, up2) ==
  /\ pc = "store"
  /\ UNCHANGED <<cfgVars, unitVars, resume_uploads, generation_results, route, file,
                 resumeUploadId, rawText, cleanedText, llmRaw, backendError, html, relayVars,
                 disconnectedAt>>
  /\ IF ~supabase
     THEN /\ storedPath' = ""
          /\ pc' = "log"
          /\ UNCHANGED <<bucketExists, blobs, res, ops>>
     ELSE /\ up1 \in FirstUploadOutcomes
          /\ LET run == StoreRun(up1, cr, up2)
             IN  /\ ops' = ops \o run.calls
                 /\ bucketExists' = run.bucket
                 /\ blobs' = IF run.stored
                             THEN Append(blobs, [ext |-> file.ext,
                                                 size |-> file.size])
                             ELSE blobs
                 /\ IF run.threw
                    THEN /\ RouteCatch(Err("fetch failed", 0))
                         /\ storedPath' = ""
                    ELSE /\ storedPath' = IF run.stored THEN "path" ELSE ""
                         /\ pc' = "log"
                         /\ res' = res

\* ------------------------------------------------------------------------
\* logResumeUpload: one insert into resume_uploads, the new id or null
\* ------------------------------------------------------------------------
UploadRow(id, path, f) ==
  [id |-> id, storage_path |-> path, file_ext |-> f.ext,
   file_size |-> f.size, template |-> "modern", visitor_id |-> ""]

LogUpload(outcome) ==
  /\ pc = "log"
  /\ UNCHANGED <<cfgVars, unitVars, bucketExists, blobs, generation_results, route,
                 file, storedPath, rawText, cleanedText, llmRaw, backendError, html, relayVars,
                 disconnectedAt>>
  /\ IF ~supabase
     THEN /\ pc' = "extract"
          /\ UNCHANGED <<resume_uploads, resumeUploadId, res, ops>>
     ELSE /\ ops' = Append(ops, "resume_uploads.insert")
          /\ IF outcome = "raise"
             THEN /\ RouteCatch(Err("fetch failed", 0))
                  /\ UNCHANGED <<resume_uploads, resumeUploadId>>
             ELSE IF outcome = "error"
             THEN /\ pc' = "extract"
                  /\ UNCHANGED <<resume_uploads, resumeUploadId, res>>
             ELSE LET id == Len(resume_uploads) + 1
                  IN  /\ resume_uploads' =
                           Append(resume_uploads,
                                  UploadRow(id, storedPath, file))
                      /\ resumeUploadId' = id
                      /\ pc' = "extract"
                      /\ res' = res

\* ------------------------------------------------------------------------
\* extractTextFromFile
\* ------------------------------------------------------------------------
\* what pdf-parse or mammoth can answer: a result whose text may be missing
\* or empty, or an exception with a message
ParserResults ==
  { [ok |-> TRUE, text |-> t, message |-> ""] :
      t \in {Absent, <<"a">>, <<" ">>} }
  \cup
  { [ok |-> FALSE, text |-> Absent, message |-> m] :
      m \in {"Invalid stream", "bad XRef entry", ""} }

\* e.message.includes('stream')
IncludesStream(m) == m \in {"Invalid stream"}

\* x || ''
TextOrEmpty(t) == IF Truthy(t) THEN t ELSE <<>>

\* the message of the error thrown for a file of no known type
UnsupportedTypeMessage == "Unsupported file type. Use PDF, DOCX, or TXT."

\* faulty variant: the extension of the name is not looked at
isTxt_MimeOnly(f) == f.mimetype = MimeTxt

\* the message of the error thrown for a PDF of fewer than 100 bytes
PdfTooSmallMessage == "PDF file is too small or empty."

\* faulty variant: an error of the PDF parser is swallowed and the empty text
\* is returned
PdfFailure_Swallowed(pr) ==
  [ok |-> TRUE, text |-> <<>>, message |-> "",
   calls |-> <<"pdfParse", "pdfParse.rejected">>]

\* faulty variant: the parser is called a second time after it failed
PdfFailure_Retried(pr) ==
  [ok |-> FALSE, text |-> <<>>,
   message |-> MessageOr(pr.message, "PDF parsing failed."),
   calls |-> <<"pdfParse", "pdfParse.rejected", "pdfParse">>]

\* the catch block around pdfParse: the error is thrown again under a
\* message for the user
PdfFailure(pr) ==
  [ok |-> FALSE, text |-> <<>>,
   message |-> IF IncludesStream(pr.message)
               THEN "Could not read PDF."
               ELSE MessageOr(pr.message, "PDF parsing failed."),
   calls |-> <<"pdfParse", "pdfParse.rejected">>]

\* the three type tests: the declared type or the extension of the name
\* faulty variant: the declared type is not looked at
isTxt_ExtOnly(f) == f.ext = ".txt"

isTxt(f) == f.mimetype = MimeTxt \/ f.ext = ".txt"
isPdf(f) == f.mimetype = MimePdf \/ f.ext = ".pdf"
isDocx(f) == f.mimetype = MimeDocx \/ f.ext = ".docx"

\* the value returned (ok) or the message of the error thrown, and the
\* parser calls made, for a file f and the answer pr of the parser
extractTextFromFile(f, pr) ==
      IF isTxt(f)
      THEN [ok |-> TRUE, text |-> f.text, message |-> "", calls |-> <<>>]
      ELSE IF isPdf(f) /\ pdfParse
      THEN IF f.size < 100
           THEN [ok |-> FALSE, text |-> <<>>,
                 message |-> PdfTooSmallMessage,
                 calls |-> <<>>]
           ELSE IF pr.ok
           THEN [ok |-> TRUE, text |-> TextOrEmpty(pr.text), message |-> "",
                 calls |-> <<"pdfParse">>]
           ELSE PdfFailure(pr)
      ELSE IF isDocx(f) /\ mammoth
      THEN IF pr.ok
           THEN [ok |-> TRUE, text |-> TextOrEmpty(pr.text), message |-> "",
                 calls |-> <<"mammoth.extractRawText">>]
           ELSE [ok |-> FALSE, text |-> <<>>, message |-> pr.message,
                 calls |-> <<"mammoth.extractRawText">>]
      ELSE IF isPdf(f)
      THEN [ok |-> FALSE, text |-> <<>>,
            message |-> "PDF parsing requires: npm install pdf-parse",
            calls |-> <<>>]
      ELSE IF isDocx(f)
      THEN [ok |-> FALSE, text |-> <<>>,
            message |-> "DOCX parsing requires: npm install mammoth",
            calls |-> <<>>]
      ELSE [ok |-> FALSE, text |-> <<>>,
            message |-> UnsupportedTypeMessage,
            calls |-> <<>>]

Extract(pr) ==
  /\ pc = "extract"
  /\ UNCHANGED <<cfgVars, unitVars, storeVars, route, file, storedPath, resumeUploadId,
                 cleanedText, llmRaw, backendError, html, relayVars, disconnectedAt>>
  /\ LET x == extractTextFromFile(file, pr)
     IN  /\ ops' = (ops \o <<"extractTextFromFile">>) \o x.calls
         /\ IF x.ok
            THEN /\ rawText' = x.text
                 /\ pc' = "clean"
                 /\ res' = res
            ELSE /\ RouteCatch(Err(x.message, 0))
                 /\ rawText' = rawText

\* ------------------------------------------------------------------------
\* cleanResumeData
\* ------------------------------------------------------------------------
maxLen == 15000

TruncationMarker ==
  <<"\n", "\n", "[", ".", ".", ".", " ", "c", "o", "n", "t", "e", "n", "t",
    " ", "t", "r", "u", "n", "c", "a", "t", "e", "d", " ", "f", "o", "r",
    " ", "l", "e", "n", "g", "t", "h", " ", ".", ".", ".", "]">>

\* replace of CR LF by LF, then of CR by LF
RECURSIVE UnifyNewlines(_)
UnifyNewlines(s) ==
  IF s = <<>> THEN <<>>
  ELSE IF Head(s) = "\r"
  THEN IF Len(s) >= 2 /\ s[2] = "\n"
       THEN <<"\n">> \o UnifyNewlines(Tail(Tail(s)))
       ELSE <<"\n">> \o UnifyNewlines(Tail(s))
  ELSE <<Head(s)>> \o UnifyNewlines(Tail(s))

\* replace of every tab by a space
TabsToSpaces(s) == [i \in 1..Len(s) |-> IF s[i] = "\t" THEN " " ELSE s[i]]

\* replace of every run of white space (line breaks included) by one space
RECURSIVE CollapseWs(_)
CollapseWs(s) ==
  IF s = <<>> THEN <<>>
  ELSE IF IsWs(Head(s))
  THEN <<" ">> \o CollapseWs(LTrimWs(s))
  ELSE <<Head(s)>> \o CollapseWs(Tail(s))

\* number of line feeds at the start of s
RECURSIVE LeadingNewlines(_)
LeadingNewlines(s) ==
  IF s # <<>> /\ Head(s) = "\n" THEN 1 + LeadingNewlines(Tail(s)) ELSE 0

\* replace of every run of three or more line feeds by two
RECURSIVE CollapseNewlines(_)
CollapseNewlines(s) ==
  IF s = <<>> THEN <<>>
  ELSE LET n == LeadingNewlines(s)
       IN  IF n >= 3
           THEN <<"\n", "\n">> \o CollapseNewlines(SubSeq(s, n + 1, Len(s)))
           ELSE IF n >= 1
           THEN SubSeq(s, 1, n) \o CollapseNewlines(SubSeq(s, n + 1, Len(s)))
           ELSE <<Head(s)>> \o CollapseNewlines(Tail(s))

\* the chain of replace and trim calls, on a non-empty string
NormalizeText(raw) ==
  CollapseNewlines(Trim(CollapseWs(TabsToSpaces(UnifyNewlines(raw)))))

\* faulty variant: the marker is appended but the text is not cut
cleanResumeDataWith_NoSlice(raw, cap) ==
  IF ~Truthy(raw) THEN <<>>
  ELSE LET t == NormalizeText(raw)
       IN  IF Len(t) > cap
           THEN t \o TruncationMarker
           ELSE t

\* faulty variant: the cut is one character short of the cap
cleanResumeDataWith_OffByOne(raw, cap) ==
  IF ~Truthy(raw) THEN <<>>
  ELSE LET t == NormalizeText(raw)
       IN  IF Len(t) > cap
           THEN SubSeq(t, 1, cap - 1) \o TruncationMarker
           ELSE t

\* faulty variant: the comparison with the cap is reversed
cleanResumeDataWith_FlippedCap(raw, cap) ==
  IF ~Truthy(raw) THEN <<>>
  ELSE LET t == NormalizeText(raw)
       IN  IF Len(t) < cap
           THEN t \o TruncationMarker
           ELSE t

\* the body of cleanResumeData, with the value of maxLen left open
cleanResumeDataWith(raw, cap) ==
  IF ~Truthy(raw) THEN <<>>
  ELSE LET t == NormalizeText(raw)
       IN  IF Len(t) > cap
           THEN SubSeq(t, 1, cap) \o TruncationMarker
           ELSE t

cleanResumeData(raw) == cleanResumeDataWith(raw, maxLen)

\* faulty variant: the check of the cleaned text is missing
Clean_NoEmptyCheck ==
  /\ pc = "clean"
  /\ UNCHANGED <<cfgVars, unitVars, storeVars, route, storedPath, resumeUploadId,
                 rawText, llmRaw, backendError, html, relayVars, disconnectedAt>>
  /\ ops' = Append(ops, "cleanResumeData")
  /\ cleanedText' = cleanResumeData(rawText)
  /\ file' = NoFile
  /\ res' = res
  /\ pc' = IF route = "/upload" THEN "generate" ELSE "relay"

\* cleanResumeData and the check of its result; the file is not read after
\* this point
Clean ==
  /\ pc = "clean"
  /\ UNCHANGED <<cfgVars, unitVars, storeVars, route, storedPath, resumeUploadId,
                 rawText, llmRaw, backendError, html, relayVars, disconnectedAt>>
  /\ ops' = Append(ops, "cleanResumeData")
  /\ cleanedText' = cleanResumeData(rawText)
  /\ file' = NoFile
  /\ IF cleanedText' = <<>>
     THEN /\ res' = ResJsonError(res, 400,
                                 IF route = "/upload"
                                 THEN "Could not extract text from the file. Try a different file or paste text."
                                 ELSE "Could not extract text from the file.")
          /\ pc' = "finished"
     ELSE /\ res' = res
          /\ pc' = IF route = "/upload" THEN "generate" ELSE "relay"

\* ------------------------------------------------------------------------
\* saveGenerationResult
\* ------------------------------------------------------------------------
ModelGemini == "gemini-2.0-flash"

\* faulty variant: the check of the upload id is missing
SaveWillInsert_NoIdCheck(id) == supabase

\* the function goes on to the insert
SaveWillInsert(id) == supabase /\ id # NullId

\* the row it inserts: llm_model defaults to the Gemini model, an empty
\* llm_html becomes null
GenerationRow(id, llmModel, llmHtml) ==
  [resume_upload_id |-> id,
   llm_model |-> IF llmModel = "" THEN ModelGemini ELSE llmModel,
   llm_html |-> IF Truthy(llmHtml) THEN llmHtml ELSE Null]

\* the rows after the call, whether an insert was issued and whether the
\* call threw, for the answer outcome of the tracking store
saveGenerationResult(rows, id, llmModel, llmHtml, outcome) ==
  IF ~SaveWillInsert(id)
  THEN [rows |-> rows, attempted |-> FALSE, threw |-> FALSE]
  ELSE [rows |-> IF outcome = "ok"
                 THEN Append(rows, GenerationRow(id, llmModel, llmHtml))
                 ELSE rows,
        attempted |-> TRUE,
        threw |-> outcome = "raise"]

\* ------------------------------------------------------------------------
\* streamWithGemini
\* ------------------------------------------------------------------------
\* faulty variant: res.end() is missing after the error event
RelayNoKey_NoEnd(r) ==
  ResWrite(r, ErrorEvent("Streaming requires GEMINI_API_KEY in .env"))

\* no key: one error event on the bare response, then end
RelayNoKey(r) ==
  ResEnd(ResWrite(r, ErrorEvent("Streaming requires GEMINI_API_KEY in .env")))

\* faulty variant: the done event is written after the try statement, so
\* also after the catch block
RelayCatch_ThenDone(r, msg) ==
  ResEnd(ResWrite(ResWrite(r, ErrorEvent(MessageOr(msg, "Stream failed"))),
                  DoneEvent))

\* the catch block, then res.end()
RelayCatch(r, msg) ==
  ResEnd(ResWrite(r, ErrorEvent(MessageOr(msg, "Stream failed"))))

\* the last statement of the try block, then res.end()
RelayFinish(r) == ResEnd(ResWrite(r, DoneEvent))

\* faulty variant: the stripped text is not checked
ShouldSave_IdOnly(id, llmHtml) == id # NullId

\* the guard in front of saveGenerationResult
ShouldSave(id, llmHtml) == id # NullId /\ llmHtml # <<>>

\* faulty variant: the done event is written before the insert is awaited
ResAtStreamEnd_DoneFirst(r, save) ==
  IF save THEN ResWrite(r, DoneEvent) ELSE RelayFinish(r)

\* the response when the stream has ended: nothing is written while the
\* insert is awaited
ResAtStreamEnd(r, save) == IF save THEN r ELSE RelayFinish(r)

\* faulty variant: the return after the missing-key answer is missing
RelayOpen_NoReturn ==
  /\ pc = "relay"
  /\ UNCHANGED <<cfgVars, unitVars, storeVars, reqVars, relayVars, disconnectedAt, ops>>
  /\ res' = IF ~GEMINI_API_KEY THEN RelayNoKey(res) ELSE ResOpenSse(res)
  /\ pc' = "import"

RelayOpen ==
  /\ pc = "relay"
  /\ UNCHANGED <<cfgVars, unitVars, storeVars, reqVars, relayVars, disconnectedAt, ops>>
  /\ IF ~GEMINI_API_KEY
     THEN /\ res' = RelayNoKey(res)
          /\ pc' = "finished"
     ELSE /\ res' = ResOpenSse(res)
          /\ pc' = "import"

\* import('@google/genai') and new GoogleGenAI, outside the try block; then
\* the call of generateContentStream
ImportClient(ok) ==
  /\ pc = "import"
  /\ UNCHANGED <<cfgVars, unitVars, storeVars, reqVars, relayVars, disconnectedAt>>
  /\ IF ok
     THEN /\ ops' = Append(ops, "generateContentStream")
          /\ pc' = "open"
          /\ res' = res
     ELSE /\ RouteCatch(Err("Cannot find package '@google/genai'", 0))
          /\ ops' = ops

\* generateContentStream settles: a stream, or an error
OpenStream(ok, msg) ==
  /\ pc = "open"
  /\ UNCHANGED <<cfgVars, unitVars, storeVars, reqVars, pulled, chunkCount, fullHtml,
                 cleanedHtml, disconnectedAt, ops>>
  /\ IF ok
     THEN /\ pc' = "streaming"
          /\ stream' = "open"
          /\ res' = res
     ELSE /\ res' = RelayCatch(res, msg)
          /\ stream' = "raised"
          /\ pc' = "finished"

\* faulty variant: the test of the extracted text is missing
PullChunk_NoGuard(chunk) ==
  /\ pc = "streaming"
  /\ Len(pulled) < MaxFrags
  /\ UNCHANGED <<cfgVars, unitVars, storeVars, reqVars, stream, cleanedHtml,
                 disconnectedAt, ops, pc>>
  /\ pulled' = Append(pulled, chunk)
  /\ chunkCount' = chunkCount + 1
  /\ fullHtml' = fullHtml \o ChunkText(chunk)
  /\ res' = ResWrite(res, ChunkEvent(ChunkText(chunk)))

\* one turn of the for await loop
PullChunk(chunk) ==
  /\ pc = "streaming"
  /\ Len(pulled) < MaxFrags
  /\ UNCHANGED <<cfgVars, unitVars, storeVars, reqVars, stream, cleanedHtml,
                 disconnectedAt, ops, pc>>
  /\ pulled' = Append(pulled, chunk)
  /\ LET text == ChunkText(chunk)
     IN  IF text # <<>>
         THEN /\ chunkCount' = chunkCount + 1
              /\ fullHtml' = fullHtml \o text
              /\ res' = ResWrite(res, ChunkEvent(text))
         ELSE UNCHANGED <<chunkCount, fullHtml, res>>

\* faulty variant: the accumulated text is kept as it is
Finalize_NoStrip ==
  /\ cleanedHtml' = fullHtml
  /\ LET save == ShouldSave(resumeUploadId, cleanedHtml')
     IN  /\ res' = ResAtStreamEnd(res, save)
         /\ pc' = IF save THEN "saving" ELSE "finished"
         /\ ops' = IF save /\ SaveWillInsert(resumeUploadId)
                   THEN Append(ops, "generation_results.insert")
                   ELSE ops

\* after the loop: fences are stripped and the insert is started, or the
\* session is finished at once
Finalize ==
  /\ cleanedHtml' = StripFences(fullHtml)
  /\ LET save == ShouldSave(resumeUploadId, cleanedHtml')
     IN  /\ res' = ResAtStreamEnd(res, save)
         /\ pc' = IF save THEN "saving" ELSE "finished"
         /\ ops' = IF save /\ SaveWillInsert(resumeUploadId)
                   THEN Append(ops, "generation_results.insert")
                   ELSE ops

\* the stream ends
StreamEnd ==
  /\ pc = "streaming"
  /\ stream' = "ended"
  /\ UNCHANGED <<cfgVars, unitVars, storeVars, reqVars, pulled, chunkCount, fullHtml,
                 disconnectedAt>>
  /\ Finalize

\* faulty variant: the error of the stream is swallowed inside the loop
\* and what was accumulated is finalized
StreamRaise_AsEnd(msg) ==
  /\ pc = "streaming"
  /\ stream' = "raised"
  /\ UNCHANGED <<cfgVars, unitVars, storeVars, reqVars, pulled, chunkCount,
                 fullHtml, disconnectedAt>>
  /\ Finalize

\* the stream raises
StreamRaise(msg) ==
  /\ pc = "streaming"
  /\ stream' = "raised"
  /\ UNCHANGED <<cfgVars, unitVars, storeVars, reqVars, pulled, chunkCount, fullHtml,
                 cleanedHtml, disconnectedAt, ops>>
  /\ res' = RelayCatch(res, msg)
  /\ pc' = "finished"

\* saveGenerationResult settles
RelaySaveReturn(outcome) ==
  /\ pc = "saving"
  /\ route = "/upload-stream"
  /\ UNCHANGED <<cfgVars, unitVars, bucketExists, blobs, resume_uploads, reqVars,
                 relayVars, disconnectedAt>>
  /\ LET run == saveGenerationResult(generation_results, resumeUploadId,
                                     ModelGemini, cleanedHtml, outcome)
     IN  /\ generation_results' = run.rows
         /\ ops' = IF run.attempted
                   THEN Append(ops, "generation_results.insert.settled")
                   ELSE ops
         /\ res' = IF run.threw THEN RelayCatch(res, "fetch failed")
                   ELSE RelayFinish(res)
         /\ pc' = "finished"

\* the client goes away while the relay holds the channel open; nothing in
\* the handlers listens for it
ClientDisconnect ==
  /\ pc \in {"streaming", "saving"}
  /\ route = "/upload-stream"
  /\ disconnectedAt = ""
  /\ disconnectedAt' = pc
  /\ UNCHANGED <<cfgVars, unitVars, storeVars, reqVars, relayVars, pc, res, ops>>

\* ------------------------------------------------------------------------
\* generateHtmlWithLLM, generateWithGemini, generateWithAnthropic
\* ------------------------------------------------------------------------
PlaceholderKey == "YOUR_LLM_API_KEY_HERE"
ModelAnthropic == "claude-sonnet-4-20250514"

\* fixed documents, each one token of text
NoContentGemini == <<"<p>No content returned from Gemini.</p>">>
NoContentAnthropic == <<"<p>No content returned from LLM.</p>">>
PlaceholderHead == <<"<h1>ResumeToSite</h1><p>Set GEMINI_API_KEY ...</p><pre>">>
PlaceholderTail == <<"</pre></body></html>">>

escapeHtml(t) ==
  [i \in 1..Len(t) |->
     CASE t[i] = "&" -> "&amp;"
       [] t[i] = "<" -> "&lt;"
       [] t[i] = ">" -> "&gt;"
       [] t[i] = "\"" -> "&quot;"
       [] OTHER -> t[i]]

\* the static page returned when no key is configured
PlaceholderPage(cleaned) ==
  (PlaceholderHead
     \o escapeHtml(SubSeq(cleaned, 1, IF Len(cleaned) < 500 THEN Len(cleaned)
                                      ELSE 500)))
  \o PlaceholderTail

\* raw texts a backend answers with: nothing, a body, a fenced body, fences
\* around nothing
RawOutputs ==
  { <<>>, <<"a">>, (FenceOpenText \o <<"a", "\n">>) \o FenceText,
    FenceOpenText \o FenceText }

\* a Gemini response: null, or an object with text and
\* candidates[0].content.parts[0].text
MkResponse(t, c) == [obj |-> TRUE, text |-> t, cand |-> c]
NullResponse == [obj |-> FALSE, text |-> Absent, cand |-> Absent]

GeminiResponses ==
  { MkResponse(t, Absent) : t \in RawOutputs }
  \cup { MkResponse(Absent, t) : t \in {<<>>, <<"a">>} }
  \cup { MkResponse(Absent, Absent), NullResponse }

\* an Anthropic message: content[0].text, possibly missing
AnthropicResponses == RawOutputs \cup {Absent}

\* errors of a backend call
BackendErrors ==
  { Err("API key not valid", 400), Err("invalid x-api-key", 403),
    Err("unauthorized", 401), Err("quota exceeded", 429), Err("", 0),
    Err("invalid argument", 400) }

\* the lower-cased message includes 'api key', 'invalid' or 'authentication'
GeminiAuthMessage(m) ==
  m \in {"API key not valid", "invalid x-api-key", "invalid argument"}
\* e.error.message, lower-cased, includes 'invalid x-api-key'
AnthropicAuthMessage(m) == m \in {"invalid x-api-key"}

\* the text generateWithGemini takes from a response
GeminiResponseText(response) ==
  IF response.obj /\ response.text # Absent
  THEN response.text
  ELSE IF response.obj /\ response.cand # Absent
  THEN TextOrEmpty(response.cand)
  ELSE <<>>

\* value or error of generateWithGemini, given that the call answered (ok)
\* with response, or failed with e; raw is the answer's text before the
\* fences are stripped
generateWithGemini(ok, response, e) ==
  IF ok
  THEN LET raw == GeminiResponseText(response)
           h == StripFences(raw)
       IN  [ok |-> TRUE, raw |-> raw,
            html |-> IF h # <<>> THEN h ELSE NoContentGemini,
            err |-> Err("", 0)]
  ELSE IF e.status = 401 \/ GeminiAuthMessage(e.message)
  THEN [ok |-> FALSE, raw |-> Absent, html |-> <<>>,
        err |-> Err("Invalid Gemini API key.", 0)]
  ELSE [ok |-> FALSE, raw |-> Absent, html |-> <<>>, err |-> e]

generateWithAnthropic(ok, text, e) ==
  IF ok
  THEN LET raw == TextOrEmpty(text)
           h == StripFences(raw)
       IN  [ok |-> TRUE, raw |-> raw,
            html |-> IF h # <<>> THEN h ELSE NoContentAnthropic,
            err |-> Err("", 0)]
  ELSE IF e.status = 401 \/ AnthropicAuthMessage(e.message)
  THEN [ok |-> FALSE, raw |-> Absent, html |-> <<>>,
        err |-> Err("Invalid Anthropic API key.", 0)]
  ELSE [ok |-> FALSE, raw |-> Absent, html |-> <<>>, err |-> e]

\* faulty variant: the placeholder value counts as a credential
SelectBackend_NoPlaceholderCheck ==
  IF GEMINI_API_KEY THEN "gemini"
  ELSE IF LLM_API_KEY # "" THEN "anthropic"
  ELSE "placeholder"

\* which branch generateHtmlWithLLM takes
SelectBackend ==
  IF GEMINI_API_KEY THEN "gemini"
  ELSE IF LLM_API_KEY # "" /\ LLM_API_KEY # PlaceholderKey THEN "anthropic"
  ELSE "placeholder"

\* the call the selected backend receives
BackendCall(backend) ==
  IF backend = "gemini" THEN <<"generateContent">>
  ELSE IF backend = "anthropic" THEN <<"messages.create">>
  ELSE <<>>

\* generateHtmlWithLLM: loaded says whether the SDK could be loaded, ok
\* whether the call answered, gr and ar are the answers, e the error
generateHtmlWithLLM(cleaned, loaded, ok, gr, ar, e) ==
  LET backend == SelectBackend
  IN  IF backend = "placeholder"
      THEN [ok |-> TRUE, raw |-> Absent, html |-> PlaceholderPage(cleaned),
            err |-> Err("", 0), calls |-> <<>>]
      ELSE IF ~loaded
      THEN [ok |-> FALSE, raw |-> Absent, html |-> <<>>,
            err |-> Err("Cannot find module", 0), calls |-> <<>>]
      ELSE LET g == IF backend = "gemini" THEN generateWithGemini(ok, gr, e)
                    ELSE generateWithAnthropic(ok, ar, e)
           IN  [ok |-> g.ok, raw |-> g.raw, html |-> g.html, err |-> g.err,
                calls |-> BackendCall(backend)]

\* res.status(200).json({ data: { html }, storedPath })
ResJsonData(r, h, path) ==
  [r EXCEPT !.status = 200, !.headersSent = TRUE, !.ended = TRUE,
            !.body = [NoBody EXCEPT !.kind = "data", !.html = h,
                                    !.storedPath = path]]

\* the guard in front of saveGenerationResult in the /upload handler
BatchShouldSave(id, h) == id # NullId /\ h # <<>>

\* generateHtmlWithLLM settles; the insert is started or the answer is sent
Generate(loaded, ok, gr, ar, e) ==
  /\ pc = "generate"
  /\ UNCHANGED <<cfgVars, unitVars, storeVars, route, file, storedPath, resumeUploadId,
                 rawText, cleanedText, relayVars, disconnectedAt>>
  /\ LET g == generateHtmlWithLLM(cleanedText, loaded, ok, gr, ar, e)
     IN  /\ llmRaw' = g.raw
         /\ backendError' = IF g.calls # <<>> /\ ~ok THEN e ELSE NoError
         /\ ops' = (ops \o g.calls)
                   \o (IF /\ g.ok
                          /\ BatchShouldSave(resumeUploadId, g.html)
                          /\ SaveWillInsert(resumeUploadId)
                       THEN <<"generation_results.insert">>
                       ELSE <<>>)
         /\ IF ~g.ok
            THEN /\ RouteCatch(g.err)
                 /\ html' = html
            ELSE /\ html' = g.html
                 /\ IF BatchShouldSave(resumeUploadId, g.html)
                    THEN /\ pc' = "saving"
                         /\ res' = res
                    ELSE /\ pc' = "finished"
                         /\ res' = ResJsonData(res, g.html, storedPath)

\* saveGenerationResult settles in the /upload handler
BatchSaveReturn(outcome) ==
  /\ pc = "saving"
  /\ route = "/upload"
  /\ UNCHANGED <<cfgVars, unitVars, bucketExists, blobs, resume_uploads, reqVars,
                 relayVars, disconnectedAt>>
  /\ LET run == saveGenerationResult(generation_results, resumeUploadId,
                                     ModelGemini, html, outcome)
     IN  /\ generation_results' = run.rows
         /\ ops' = IF run.attempted
                   THEN Append(ops, "generation_results.insert.settled")
                   ELSE ops
         /\ IF run.threw
            THEN RouteCatch(Err("fetch failed", 0))
            ELSE /\ res' = ResJsonData(res, html, storedPath)
                 /\ pc' = "finished"

\* ------------------------------------------------------------------------
\* One request from arrival to the end of its handler
\* ------------------------------------------------------------------------
Next ==
  \/ \E rt \in Routes, hasFile \in BOOLEAN, f \in Files, readOk \in BOOLEAN :
       Receive(rt, hasFile, f, readOk)
  \/ \E up1 \in Outcomes \cup {"notfound"}, cr \in Outcomes, up2 \in Outcomes :
       StoreFile(up1, cr, up2)
  \/ \E outcome \in Outcomes : LogUpload(outcome)
  \/ \E pr \in ParserResults : Extract(pr)
  \/ Clean
  \/ \E loaded \in BOOLEAN, ok \in BOOLEAN, gr \in GeminiResponses,
        ar \in AnthropicResponses, e \in BackendErrors :
       Generate(loaded, ok, gr, ar, e)
  \/ \E outcome \in Outcomes : BatchSaveReturn(outcome)
  \/ RelayOpen
  \/ \E ok \in BOOLEAN : ImportClient(ok)
  \/ \E ok \in BOOLEAN, msg \in StreamErrors : OpenStream(ok, msg)
  \/ \E chunk \in Chunks : PullChunk(chunk)
  \/ StreamEnd
  \/ \E msg \in StreamErrors : StreamRaise(msg)
  \/ \E outcome \in Outcomes : RelaySaveReturn(outcome)
  \/ ClientDisconnect

Spec == Init /\ [][Next]_vars

\* ------------------------------------------------------------------------
\* saveGenerationResult on its own: the function is called directly with
\* every combination of arguments, against every answer of the store
\* ------------------------------------------------------------------------
CallSave(id, llmModel, llmHtml, outcome) ==
  /\ pc = "idle"
  /\ probe = NoProbe
  /\ post = NoPost
  /\ Len(ops) < MaxCalls
  /\ LET run == saveGenerationResult(generation_results, id, llmModel,
                                     llmHtml, outcome)
     IN  /\ generation_results' = run.rows
         /\ call' = [made |-> TRUE, id |-> id, llmModel |-> llmModel,
                     llmHtml |-> llmHtml, attempted |-> run.attempted,
                     inserted |-> run.rows # generation_results,
                     threw |-> run.threw]
  /\ ops' = Append(ops, "saveGenerationResult")
  /\ UNCHANGED <<cfgVars, bucketExists, blobs, resume_uploads, reqVars,
                 relayVars, pc, res, disconnectedAt, probe, post, warnVars, serverVars, decodeVars>>

NextRecorder ==
  \E id \in {NullId, 1, 2}, llmModel \in {"", ModelGemini, ModelAnthropic},
     llmHtml \in {<<>>, Absent, Null, <<"a">>}, outcome \in Outcomes :
    CallSave(id, llmModel, llmHtml, outcome)

SpecRecorder == Init /\ [][NextRecorder]_vars

\* ------------------------------------------------------------------------
\* cleanResumeData on its own: the function is called with every short text
\* (and with null and undefined), and then once more with its own result.
\* The cap is CapUnderTest, so that texts of a few characters exceed it.
\* ------------------------------------------------------------------------
CleanAlphabet == {"a", " ", "\t", "\n", "\r"}

CleanInputs ==
  UNION {[1..n -> CleanAlphabet] : n \in 0..MaxTextLen} \cup {Null, Absent}

\* cleanResumeData reads no module-level state: one configuration is enough
InitClean == Init /\ ~supabase /\ GEMINI_API_KEY /\ LLM_API_KEY = "sk-key"

CleanOnce(x) ==
  /\ pc = "idle"
  /\ probe.applied = 0
  /\ call = NoCall
  /\ post = NoPost
  /\ probe' = [applied |-> 1, input |-> x,
               once |-> cleanResumeDataWith(x, CapUnderTest), twice |-> <<>>]
  /\ UNCHANGED <<cfgVars, storeVars, reqVars, relayVars, pc, res,
                 disconnectedAt, ops, call, post, warnVars, serverVars, decodeVars>>

CleanAgain ==
  /\ probe.applied = 1
  /\ probe' = [probe EXCEPT !.applied = 2,
                            !.twice = cleanResumeDataWith(probe.once,
                                                          CapUnderTest)]
  /\ UNCHANGED <<cfgVars, storeVars, reqVars, relayVars, pc, res,
                 disconnectedAt, ops, call, post, warnVars, serverVars, decodeVars>>

NextClean ==
  \/ \E x \in CleanInputs : CleanOnce(x)
  \/ CleanAgain

SpecClean == InitClean /\ [][NextClean]_vars

\* ------------------------------------------------------------------------
\* The post-processing of the two generation paths on its own: one backend
\* output, cut into fragments, is handed whole to generateWithGemini and
\* fragment by fragment to the loop of streamWithGemini; both run for an
\* upload with id 1
\* ------------------------------------------------------------------------
FragmentTexts == {<<>>, <<"a">>, <<"\n">>, FenceOpenText, FenceText}

FragmentLists == UNION {[1..n -> FragmentTexts] : n \in 0..MaxFrags}

\* the texts of frags joined in order
RECURSIVE JoinTexts(_)
JoinTexts(frags) ==
  IF frags = <<>> THEN <<>> ELSE Head(frags) \o JoinTexts(Tail(frags))

\* fullHtml after the loop of streamWithGemini has taken frags
RECURSIVE Accumulate(_, _)
Accumulate(acc, frags) ==
  IF frags = <<>> THEN acc
  ELSE Accumulate(IF Head(frags) # <<>> THEN acc \o Head(frags) ELSE acc,
                  Tail(frags))

InitPost == InitClean

\* generateWithGemini on the whole output, and the guard of the /upload
\* handler in front of saveGenerationResult
PostBatch(frags) ==
  /\ pc = "idle"
  /\ post.step = 0
  /\ call = NoCall
  /\ probe = NoProbe
  /\ LET g == generateWithGemini(TRUE, MkResponse(JoinTexts(frags), Absent),
                                 Err("", 0))
     IN  post' = [post EXCEPT !.step = 1, !.frags = frags, !.batch = g.html,
                              !.batchSaved = IF BatchShouldSave(1, g.html)
                                             THEN g.html ELSE Null]
  /\ UNCHANGED <<cfgVars, storeVars, reqVars, relayVars, pc, res,
                 disconnectedAt, ops, call, probe, warnVars,
                 serverVars, decodeVars>>

\* the loop and the end of the try block of streamWithGemini
PostRelay ==
  /\ post.step = 1
  /\ LET h == StripFences(Accumulate(<<>>, post.frags))
     IN  post' = [post EXCEPT !.step = 2, !.relay = h,
                              !.relaySaved = IF ShouldSave(1, h)
                                             THEN h ELSE Null]
  /\ UNCHANGED <<cfgVars, storeVars, reqVars, relayVars, pc, res,
                 disconnectedAt, ops, call, probe, warnVars,
                 serverVars, decodeVars>>

NextPost ==
  \/ \E frags \in FragmentLists : PostBatch(frags)
  \/ PostRelay

SpecPost == InitPost /\ [][NextPost]_vars

\* ------------------------------------------------------------------------
\* The PDF branch of extractTextFromFile in several requests at once. The
\* branch saves console.warn, installs its filter, awaits pdfParse and
\* restores what it saved; other requests run while it awaits. (In Spec a
\* single request runs the branch in one step, which leaves console.warn
\* as it found it.)
\* ------------------------------------------------------------------------
\* first arguments of the console.warn calls: a font warning of pdf.js, or
\* anything else
WarnMessages == {"TT: undefined function", "other"}

\* msg.includes('TT: undefined function') || msg.includes('undefined function:')
IsFontWarning(msg) == msg = "TT: undefined function"

\* whether a call of the function fn with msg reaches the original
\* console.warn: the filter of request r returns on a font warning and
\* otherwise applies the origWarn of its closure
RECURSIVE Reaches(_, _)
Reaches(fn, msg) ==
  IF fn = OriginalWarn THEN TRUE
  ELSE IF IsFontWarning(msg) THEN FALSE
  ELSE Reaches(origWarn[fn], msg)

InitWarn == Init /\ ~supabase /\ GEMINI_API_KEY /\ pdfParse

\* const origWarn = console.warn; console.warn = filter; pdfParse is called
DecodeInstall(r) ==
  /\ pdfParse
  /\ decoding[r] = "idle"
  /\ origWarn' = [origWarn EXCEPT ![r] = console_warn]
  /\ console_warn' = r
  /\ decoding' = [decoding EXCEPT ![r] = "parsing"]
  /\ UNCHANGED <<cfgVars, storeVars, reqVars, relayVars, pc, res,
                 disconnectedAt, ops, call, probe, post, warnLog,
                 serverVars, decodeVars>>

\* pdfParse settles (ok: with a text, else with an error); the finally
\* block runs: console.warn = origWarn
DecodeRestore(r, ok) ==
  /\ decoding[r] = "parsing"
  /\ console_warn' = origWarn[r]
  /\ decoding' = [decoding EXCEPT ![r] = IF ok THEN "returned" ELSE "thrown"]
  /\ UNCHANGED <<cfgVars, storeVars, reqVars, relayVars, pc, res,
                 disconnectedAt, ops, call, probe, post, origWarn, warnLog,
                 serverVars, decodeVars>>

\* some code of the process calls console.warn(msg)
Warn(msg) ==
  /\ Len(warnLog) < MaxWarns
  /\ warnLog' = Append(warnLog,
                       [msg |-> msg, printed |-> Reaches(console_warn, msg),
                        parsing |-> {r \in Decoders : decoding[r] = "parsing"}])
  /\ UNCHANGED <<cfgVars, storeVars, reqVars, relayVars, pc, res,
                 disconnectedAt, ops, call, probe, post, console_warn,
                 origWarn, decoding, serverVars, decodeVars>>

NextWarn ==
  \/ \E r \in Decoders : DecodeInstall(r)
  \/ \E r \in Decoders, ok \in BOOLEAN : DecodeRestore(r, ok)
  \/ \E msg \in WarnMessages : Warn(msg)

SpecWarn == InitWarn /\ [][NextWarn]_vars

\* ------------------------------------------------------------------------
\* Several requests handled side by side. Each handler runs the steps of its
\* route in order, one awaited call per step; between two steps of one
\* handler the other handlers take steps. The blob store and the tracking
\* store are shared. Every request uploads the same small text file; what
\* the decoder, the backend and the stores answer is open.
\* ------------------------------------------------------------------------
\* the file every request uploads
ServerFile == MkFile(".txt", MimeTxt, FALSE, 50, <<"a">>)

\* the backend answers the prompt of request r with text that stems from
\* that prompt: every fragment it sends for r carries the letter of r
FragmentLetters == <<"a", "b", "c", "d">>
FragmentOf(r) == FragmentLetters[r]

\* names under which the objects are stored: the time in milliseconds and
\* the name of the file, so two requests can ask for the same name
ObjectNames == {1, 2}

NameTaken(name) == \E o \in objects : o.name = name

\* the handler of request r moves to h
Handle(r, h) == handlers' = [handlers EXCEPT ![r] = h]

\* what a server step leaves alone besides the stores
ServerFrame ==
  UNCHANGED <<cfgVars, blobs, reqVars, relayVars, pc, res, disconnectedAt,
              ops, call, probe, post, warnVars, decodeVars>>

\* the request arrives with its file
SrvReceive(r, rt) ==
  /\ handlers[r].pc = "idle"
  /\ Handle(r, [handlers[r] EXCEPT !.route = rt, !.pc = "store"])
  /\ ServerFrame
  /\ UNCHANGED <<storeVars, objects>>

\* faulty variant: the upload is made with upsert: true and replaces the
\* object stored under the same name
SrvStoreFile_Upsert(r, name, up1, cr, up2) ==
  /\ handlers[r].pc = "store"
  /\ ServerFrame
  /\ UNCHANGED <<resume_uploads, generation_results>>
  /\ IF ~supabase
     THEN /\ Handle(r, [handlers[r] EXCEPT !.pc = "log"])
          /\ UNCHANGED <<bucketExists, objects>>
     ELSE /\ up1 \in FirstUploadOutcomes
          /\ LET run == StoreRun(up1, cr, up2)
             IN  /\ bucketExists' = run.bucket
                 /\ objects' = IF run.stored
                               THEN {o \in objects : o.name # name}
                                    \cup {[name |-> name, owner |-> r]}
                               ELSE objects
                 /\ Handle(r, [handlers[r] EXCEPT
                                 !.ops = @ \o run.calls,
                                 !.storedPath = IF run.stored /\ ~run.threw
                                                THEN name ELSE 0,
                                 !.pc = IF run.threw THEN "finished"
                                        ELSE "log"])

\* storeFileInSupabase with upsert: false: an upload under a name that is
\* taken is answered with an error
SrvStoreFile(r, name, up1, cr, up2) ==
  /\ handlers[r].pc = "store"
  /\ ServerFrame
  /\ UNCHANGED <<resume_uploads, generation_results>>
  /\ IF ~supabase
     THEN /\ Handle(r, [handlers[r] EXCEPT !.pc = "log"])
          /\ UNCHANGED <<bucketExists, objects>>
     ELSE /\ up1 \in FirstUploadOutcomes
          /\ LET run == StoreRun(up1, cr, up2)
             IN  /\ run.stored => ~NameTaken(name)
                 /\ bucketExists' = run.bucket
                 /\ objects' = IF run.stored
                               THEN objects \cup {[name |-> name, owner |-> r]}
                               ELSE objects
                 /\ Handle(r, [handlers[r] EXCEPT
                                 !.ops = @ \o run.calls,
                                 !.storedPath = IF run.stored /\ ~run.threw
                                                THEN name ELSE 0,
                                 !.pc = IF run.threw THEN "finished"
                                        ELSE "log"])

\* logResumeUpload
SrvLogUpload(r, outcome) ==
  /\ handlers[r].pc = "log"
  /\ ServerFrame
  /\ UNCHANGED <<bucketExists, generation_results, objects>>
  /\ IF ~supabase
     THEN /\ Handle(r, [handlers[r] EXCEPT !.pc = "extract"])
          /\ UNCHANGED resume_uploads
     ELSE LET id == Len(resume_uploads) + 1
          IN  /\ resume_uploads' =
                   IF outcome = "ok"
                   THEN Append(resume_uploads,
                               UploadRow(id, handlers[r].storedPath, ServerFile))
                   ELSE resume_uploads
              /\ Handle(r, [handlers[r] EXCEPT
                              !.ops = Append(@, "resume_uploads.insert"),
                              !.resumeUploadId = IF outcome = "ok" THEN id
                                                 ELSE NullId,
                              !.pc = IF outcome = "raise" THEN "finished"
                                     ELSE "extract"])

\* extractTextFromFile returns a text or throws; cleanResumeData and the
\* test of its result follow without an await in between
SrvExtract(r, ok, empty) ==
  /\ handlers[r].pc = "extract"
  /\ ServerFrame
  /\ UNCHANGED <<storeVars, objects>>
  /\ Handle(r, [handlers[r] EXCEPT
                  !.ops = IF ok
                          THEN @ \o <<"extractTextFromFile", "cleanResumeData">>
                          ELSE Append(@, "extractTextFromFile"),
                  !.pc = IF ok /\ ~empty THEN "generate" ELSE "finished"])

\* the calls a handler makes to generate, and whether it goes on to
\* saveGenerationResult, when the backend answers (ok) or fails
SrvGenerateRun(r, ok) ==
  LET h == handlers[r]
  IN  IF h.route = "/upload"
      THEN LET backend == SelectBackend
               answer == <<FragmentOf(r)>>
           IN  [calls |-> BackendCall(backend),
                html |-> IF ok \/ backend = "placeholder" THEN answer
                         ELSE <<>>,
                save |-> (ok \/ backend = "placeholder")
                         /\ BatchShouldSave(h.resumeUploadId, answer)]
      ELSE IF ~GEMINI_API_KEY
      THEN [calls |-> <<>>, html |-> <<>>, save |-> FALSE]
      ELSE LET whole == Append(h.html, FragmentOf(r))
           IN  [calls |-> IF h.html = <<>> THEN <<"generateContentStream">>
                          ELSE <<>>,
                html |-> whole,
                save |-> ok /\ ShouldSave(h.resumeUploadId, whole)]

\* one turn of the for-await loop of streamWithGemini: the fragment is
\* appended to the local fullHtml of this call
SrvPull(r) ==
  /\ handlers[r].pc = "generate"
  /\ handlers[r].route = "/upload-stream"
  /\ GEMINI_API_KEY
  /\ Len(handlers[r].html) < MaxPulls
  /\ ServerFrame
  /\ UNCHANGED <<storeVars, objects>>
  /\ Handle(r, [handlers[r] EXCEPT
                  !.ops = IF handlers[r].html = <<>>
                          THEN Append(@, "generateContentStream")
                          ELSE @,
                  !.html = Append(@, FragmentOf(r))])

\* generateHtmlWithLLM, or streamWithGemini up to the end of its loop
SrvGenerate(r, ok) ==
  /\ handlers[r].pc = "generate"
  /\ ServerFrame
  /\ UNCHANGED <<storeVars, objects>>
  /\ LET run == SrvGenerateRun(r, ok)
     IN  Handle(r, [handlers[r] EXCEPT
                     !.html = run.html,
                     !.ops = (@ \o run.calls)
                             \o (IF /\ run.save
                                    /\ SaveWillInsert(handlers[r].resumeUploadId)
                                 THEN <<"generation_results.insert">>
                                 ELSE <<>>),
                     !.pc = IF run.save THEN "saving" ELSE "finished"])

\* faulty variant: an insert that answered with an error is issued again
SrvSave_Retry(r, outcome) ==
  /\ handlers[r].pc = "saving"
  /\ ServerFrame
  /\ UNCHANGED <<bucketExists, resume_uploads, objects>>
  /\ LET run == saveGenerationResult(generation_results,
                                     handlers[r].resumeUploadId, ModelGemini,
                                     handlers[r].html, outcome)
     IN  /\ generation_results' = run.rows
         /\ Handle(r, [handlers[r] EXCEPT
                         !.ops = IF outcome = "error"
                                 THEN @ \o <<"generation_results.insert.settled",
                                             "generation_results.insert",
                                             "generation_results.insert.settled">>
                                 ELSE Append(@, "generation_results.insert.settled"),
                         !.pc = "finished"])

\* faulty variant: the upload id is kept in a variable of the module, which
\* holds the id of the latest upload row
SrvSave_LatestId(r, outcome) ==
  /\ handlers[r].pc = "saving"
  /\ ServerFrame
  /\ UNCHANGED <<bucketExists, resume_uploads, objects>>
  /\ LET run == saveGenerationResult(generation_results,
                                     Len(resume_uploads), ModelGemini,
                                     handlers[r].html, outcome)
     IN  /\ generation_results' = run.rows
         /\ Handle(r, [handlers[r] EXCEPT
                         !.ops = IF run.attempted
                                 THEN Append(@, "generation_results.insert.settled")
                                 ELSE @,
                         !.pc = "finished"])

\* saveGenerationResult settles
SrvSave(r, outcome) ==
  /\ handlers[r].pc = "saving"
  /\ ServerFrame
  /\ UNCHANGED <<bucketExists, resume_uploads, objects>>
  /\ LET run == saveGenerationResult(generation_results,
                                     handlers[r].resumeUploadId, ModelGemini,
                                     handlers[r].html, outcome)
     IN  /\ generation_results' = run.rows
         /\ Handle(r, [handlers[r] EXCEPT
                         !.ops = IF run.attempted
                                 THEN Append(@, "generation_results.insert.settled")
                                 ELSE @,
                         !.pc = "finished"])

NextServer ==
  \/ \E r \in Requests, rt \in Routes : SrvReceive(r, rt)
  \/ \E r \in Requests, name \in ObjectNames,
        up1 \in Outcomes \cup {"notfound"}, cr \in Outcomes, up2 \in Outcomes :
       SrvStoreFile(r, name, up1, cr, up2)
  \/ \E r \in Requests, outcome \in Outcomes : SrvLogUpload(r, outcome)
  \/ \E r \in Requests, ok \in BOOLEAN, empty \in BOOLEAN :
       SrvExtract(r, ok, empty)
  \/ \E r \in Requests : SrvPull(r)
  \/ \E r \in Requests, ok \in BOOLEAN : SrvGenerate(r, ok)
  \/ \E r \in Requests, outcome \in Outcomes : SrvSave(r, outcome)

\* the stores are configured and the bucket exists; the parsers play no
\* part here
InitServer == Init /\ supabase /\ bucketExists /\ pdfParse /\ mammoth

SpecServer == InitServer /\ [][NextServer]_vars

\* ------------------------------------------------------------------------
\* extractTextFromFile called on its own, with every pairing of extension
\* and declared type
\* ------------------------------------------------------------------------
DecodeExts == {".txt", ".pdf", ".docx", ".png"}
DecodeMimes == {MimeTxt, MimePdf, MimeDocx, MimePng}
DecodeTexts == {<<"a">>, <<"a", "\n">>}

\* the routes hand over a buffer, never a path
DecodeFiles ==
  { MkFile(e, m, FALSE, n, x) :
      e \in DecodeExts, m \in DecodeMimes, n \in {50, 200},
      x \in DecodeTexts }

\* pdf-parse and mammoth are optional modules: all four installations
InitDecode == Init /\ ~supabase

Decode(f, pr) ==
  /\ pc = "idle"
  /\ ~decoded.done
  /\ decoded' = [done |-> TRUE, file |-> f, answer |-> pr,
                 result |-> extractTextFromFile(f, pr)]
  /\ UNCHANGED <<cfgVars, storeVars, reqVars, relayVars, pc, res,
                 disconnectedAt, ops, call, probe, post, warnVars,
                 serverVars>>

NextDecode == \E f \in DecodeFiles, pr \in ParserResults : Decode(f, pr)

SpecDecode == InitDecode /\ [][NextDecode]_vars

\* ------------------------------------------------------------------------
\* Properties
\* ------------------------------------------------------------------------
IsStream == route = "/upload-stream"

\* the call op has been made
Has(op) == \E i \in DOMAIN ops : ops[i] = op

\* positions of the events of one kind on the channel
EventsOfKind(k) == {i \in DOMAIN res.events : res.events[i].kind = k}
TerminalEvents == EventsOfKind("done") \cup EventsOfKind("error")

\* kind of the last event written
LastEventKind ==
  IF res.events = <<>> THEN "" ELSE res.events[Len(res.events)].kind

\* payloads of the chunk events, in the order written
RECURSIVE ChunkPayloadsOf(_)
ChunkPayloadsOf(evs) ==
  IF evs = <<>> THEN <<>>
  ELSE (IF Head(evs).kind = "chunk" THEN <<Head(evs).text>> ELSE <<>>)
       \o ChunkPayloadsOf(Tail(evs))

\* the non-empty fragments of a sequence of chunks, in arrival order
RECURSIVE NonEmptyFragments(_)
NonEmptyFragments(cs) ==
  IF cs = <<>> THEN <<>>
  ELSE (IF ChunkText(Head(cs)) # <<>> THEN <<ChunkText(Head(cs))>> ELSE <<>>)
       \o NonEmptyFragments(Tail(cs))

\* a buffer made of nothing but an opening fence with its htm or html tag,
\* a closing fence and white space
FenceOnly(s) ==
  LET tag3 == <<"h", "t", "m">>
      tag4 == <<"h", "t", "m", "l">>
      a == IF Len(s) >= 7 /\ SubSeq(s, 1, 7) = FenceText \o tag4
           THEN SubSeq(s, 8, Len(s))
           ELSE IF Len(s) >= 6 /\ SubSeq(s, 1, 6) = FenceText \o tag3
           THEN SubSeq(s, 7, Len(s))
           ELSE s
      b == LTrimWs(a)
      c == IF Len(b) >= 3 /\ SubSeq(b, 1, 3) = FenceText
           THEN SubSeq(b, 4, Len(b))
           ELSE b
  IN  \A i \in DOMAIN c : IsWs(c[i])

\* C1: an upload-stream session never carries more than one terminal event
\* (done or error), whatever the stream and the insert do
C1_AtMostOneTerminal == IsStream => Cardinality(TerminalEvents) <= 1

\* the insert raised after chunks were relayed and the stream ended normally
C1_Witness ==
  /\ IsStream
  /\ pc = "finished"
  /\ stream = "ended"
  /\ Has("generation_results.insert.settled")
  /\ EventsOfKind("chunk") # {}
  /\ LastEventKind = "error"

\* C2: a finished upload-stream session whose event-stream headers were
\* flushed has emitted a terminal event and ended the response
C2_HeadersImplyTerminal ==
  (IsStream /\ res.sse /\ pc = "finished")
    => (res.ended /\ TerminalEvents # {})

\* C3: the chunk events on the channel are exactly the non-empty fragments
\* pulled so far, in arrival order, and pulling a fragment (empty or not)
\* never terminates the stream
C3_OneChunkPerFragment ==
  /\ [](IsStream => ChunkPayloadsOf(res.events) = NonEmptyFragments(pulled))
  /\ [][pulled' # pulled =>
          /\ pc' = "streaming"
          /\ ~res'.ended
          /\ \A i \in DOMAIN res'.events : res'.events[i].kind = "chunk"]_vars

\* an empty fragment sits between two relayed ones
C3_Witness ==
  /\ IsStream
  /\ Len(pulled) >= 3
  /\ ChunkText(pulled[1]) # <<>>
  /\ ChunkText(pulled[2]) = <<>>
  /\ ChunkText(pulled[3]) # <<>>
  /\ ChunkPayloadsOf(SubSeq(res.events, 1, 2))
       = <<ChunkText(pulled[1]), ChunkText(pulled[3])>>

\* C4: with an upload id bound and a non-empty stripped buffer, done is on
\* the channel only after the generation_results insert was issued and has
\* settled
C4_DoneAfterPersistAttempt ==
  (/\ IsStream
   /\ EventsOfKind("done") # {}
   /\ resumeUploadId # NullId
   /\ StripFences(fullHtml) # <<>>)
    => (Has("generation_results.insert")
        /\ Has("generation_results.insert.settled"))

\* done was written after a successful insert
C4_Witness ==
  /\ IsStream
  /\ LastEventKind = "done"
  /\ resumeUploadId # NullId
  /\ StripFences(fullHtml) # <<>>
  /\ Len(generation_results) = 1
  /\ Has("generation_results.insert.settled")

\* C5: once the Gemini stream has raised, the session is over with an error
\* event as its last event, no done event, no insert issued and no row
C5_BackendErrorEndsWithError ==
  (IsStream /\ stream = "raised")
    => /\ pc = "finished"
       /\ res.ended
       /\ LastEventKind = "error"
       /\ EventsOfKind("done") = {}
       /\ ~Has("generation_results.insert")
       /\ generation_results = <<>>

\* the stream raised after chunks were relayed, with an upload id bound
C5_Witness ==
  /\ IsStream
  /\ stream = "raised"
  /\ EventsOfKind("chunk") # {}
  /\ StripFences(fullHtml) # <<>>
  /\ resumeUploadId # NullId

\* C6: after the client went away during streaming, no fragment is pulled,
\* no event is written and no row is inserted
C6_DisconnectStopsRelay ==
  [][(IsStream /\ disconnectedAt = "streaming")
       => /\ pulled' = pulled
          /\ res'.events = res.events
          /\ generation_results' = generation_results]_vars

C8_EmptyOutputNoRow ==
  (route = "/upload" /\ llmRaw # Absent /\ StripFences(llmRaw) = <<>>)
    => (~Has("generation_results.insert") /\ generation_results = <<>>)

\* C9 as stated: called without an upload id or with an empty or absent
\* artifact, saveGenerationResult issues no insert
C9_NoInsertWithoutIdOrArtifact ==
  (call.made /\ (call.id = NullId \/ ~Truthy(call.llmHtml)))
    => (~call.attempted /\ ~call.inserted)

\* C9 amended: saveGenerationResult issues its insert exactly when the
\* client is configured and the upload id is present; the row it writes
\* carries that id, and a null artifact when the artifact is empty or absent
C9_InsertIffClientAndId ==
  /\ call.made => (call.attempted <=> (supabase /\ call.id # NullId))
  /\ call.inserted =>
       /\ call.attempted
       /\ generation_results[Len(generation_results)]
            = [resume_upload_id |-> call.id,
               llm_model |-> IF call.llmModel = "" THEN "gemini-2.0-flash"
                             ELSE call.llmModel,
               llm_html |-> IF call.llmHtml \in {<<>>, Absent, Null}
                            THEN Null ELSE call.llmHtml]
  /\ \A i \in DOMAIN generation_results :
       generation_results[i].resume_upload_id # NullId

\* a row with a null artifact was inserted for a present upload id
C9_Witness ==
  /\ call.made
  /\ call.id # NullId
  /\ ~Truthy(call.llmHtml)
  /\ call.inserted

\* C10: a request that reached the blob store or the tracking store goes on
\* to the decoder, whatever the stores answered
C10_StorageFailureNeverAborts ==
  (pc = "finished" /\ (Has("storage.upload") \/ Has("resume_uploads.insert")))
    => Has("extractTextFromFile")

\* the decoder was called and threw
DecodeFailed ==
  Has("extractTextFromFile") /\ ~Has("cleanResumeData") /\ pc # "clean"

\* cleanResumeData ran and returned the empty text
CleanedEmpty == Has("cleanResumeData") /\ cleanedText = <<>>

\* a backend was called, or the event stream was opened
BackendTouched ==
  \/ Has("generateContent")
  \/ Has("messages.create")
  \/ Has("generateContentStream")
  \/ res.sse
  \/ res.events # <<>>

\* C11: on both routes, when the decoder throws or the cleaned text is
\* empty, the request ends with a JSON error body under an error status,
\* no backend call was made, no event stream was opened and no event written
C11_DecodeOrEmptyFailsBeforeBackend ==
  (DecodeFailed \/ CleanedEmpty) =>
     /\ pc = "finished"
     /\ res.ended
     /\ res.body.kind = "error"
     /\ res.status \in {400, 500}
     /\ res.body.message # ""
     /\ ~BackendTouched
     /\ html = <<>>

\* a streaming request whose decoded text cleaned to nothing was refused
\* with status 400 although the primary credential is configured
C11_Witness ==
  /\ IsStream
  /\ GEMINI_API_KEY
  /\ CleanedEmpty
  /\ pc = "finished"
  /\ res.status = 400

\* generateHtmlWithLLM has settled in the /upload handler
GenerateDone ==
  /\ route = "/upload"
  /\ Has("cleanResumeData")
  /\ cleanedText # <<>>
  /\ pc # "generate"

\* the secondary credential is set to something other than the placeholder
SecondaryConfigured == LLM_API_KEY # "" /\ LLM_API_KEY # PlaceholderKey

\* the SDK of the selected backend could not be loaded
ModuleMissing ==
  res.body.kind = "error" /\ res.body.message = "Cannot find module"

\* C12: batch generation calls the primary backend whenever its credential
\* is configured, the secondary only when the primary credential is absent
\* and the secondary one is set and is not the placeholder value, and with
\* neither it calls no backend and returns the static placeholder page
C12_BackendPreferenceOrder ==
  /\ Has("generateContent") => GEMINI_API_KEY
  /\ Has("messages.create") => (~GEMINI_API_KEY /\ SecondaryConfigured)
  /\ GenerateDone =>
       /\ GEMINI_API_KEY => (Has("generateContent") \/ ModuleMissing)
       /\ (~GEMINI_API_KEY /\ SecondaryConfigured)
            => (Has("messages.create") \/ ModuleMissing)
       /\ (~GEMINI_API_KEY /\ ~SecondaryConfigured)
            => /\ ~Has("generateContent")
               /\ ~Has("messages.create")
               /\ llmRaw = Absent
               /\ html = PlaceholderPage(cleanedText)
               /\ ~ModuleMissing

\* with the secondary credential left at its placeholder value and no
\* primary credential the request was answered with the placeholder page
C12_Witness ==
  /\ GenerateDone
  /\ ~GEMINI_API_KEY
  /\ LLM_API_KEY = PlaceholderKey
  /\ pc = "finished"
  /\ res.status = 200
  /\ res.body.html = PlaceholderPage(cleanedText)

\* the text s ends with the truncation marker
EndsWithMarker(s) ==
  /\ Len(s) >= Len(TruncationMarker)
  /\ SubSeq(s, Len(s) - Len(TruncationMarker) + 1, Len(s)) = TruncationMarker

\* C13: cleaning the result of cleanResumeData once more returns it
\* unchanged, for every input, truncated results included
C13_CleanIdempotent == probe.applied = 2 => probe.twice = probe.once

\* a text was cut at a space, its result carries the marker, and the second
\* cleaning of that result has been made
C13_Witness ==
  /\ probe.applied = 2
  /\ EndsWithMarker(probe.once)
  /\ probe.once[CapUnderTest] = " "
  /\ probe.twice = probe.once

\* the probe was called with a string
ProbedText == probe.applied >= 1 /\ probe.input \notin {Null, Absent}

\* the result is cut at the cap and carries the marker
CutAtCap(out) ==
  /\ Len(out) = CapUnderTest + Len(TruncationMarker)
  /\ EndsWithMarker(out)

\* C14: for every input longer than the cap, the result of cleanResumeData
\* has the length of the cap plus the marker and ends with the marker
C14_LongInputIsCut ==
  (ProbedText /\ Len(probe.input) > CapUnderTest) => CutAtCap(probe.once)

\* C14 amended: the cap applies to the text left after the white-space
\* collapse and the trim: when that text is longer than the cap the result
\* is its first cap characters followed by the marker, and otherwise it is
\* that text itself, however long the input was
C14_LongCleanedTextIsCut ==
  ProbedText =>
    IF Len(NormalizeText(probe.input)) > CapUnderTest
    THEN /\ CutAtCap(probe.once)
         /\ SubSeq(probe.once, 1, CapUnderTest)
              = SubSeq(NormalizeText(probe.input), 1, CapUnderTest)
    ELSE /\ probe.once = NormalizeText(probe.input)
         /\ Len(probe.once) <= CapUnderTest

\* an input longer than the cap whose cleaned text is longer than the cap
\* too, and was cut
C14_Witness ==
  /\ ProbedText
  /\ Len(NormalizeText(probe.input)) > CapUnderTest
  /\ CutAtCap(probe.once)

\* s has a blank line (two consecutive line feeds) at positions i, i + 1
BlankLineAt(s, i) == i + 1 <= Len(s) /\ s[i] = "\n" /\ s[i + 1] = "\n"

\* s holds two paragraphs: text, a blank line, text
HasParagraphBreak(s) ==
  \E i \in DOMAIN s :
    /\ BlankLineAt(s, i)
    /\ \E j \in 1..(i - 1) : ~IsWs(s[j])
    /\ \E k \in (i + 2)..Len(s) : ~IsWs(s[k])

\* C15: cleanResumeData keeps line feeds: a text of two paragraphs
\* separated by a blank line comes out with two consecutive line feeds
\* between them (the result is not cut here, so the marker plays no part)
C15_ParagraphBreakKept ==
  (/\ ProbedText
   /\ HasParagraphBreak(probe.input)
   /\ ~EndsWithMarker(probe.once))
    => HasParagraphBreak(probe.once)

\* neither the declared type nor the extension of f is one of the three
\* the decoder knows
MatchesNoType(f) ==
  /\ f.mimetype \notin {MimeTxt, MimePdf, MimeDocx}
  /\ f.ext \notin {".txt", ".pdf", ".docx"}

\* the request was answered with the error for a file of no known type
UnsupportedTypeAnswered ==
  res.body.kind = "error" /\ res.body.message = UnsupportedTypeMessage

\* C16: the decoder throws the unsupported-type error exactly for files
\* whose declared type and extension match none of text, PDF and DOCX; for
\* such a file no parser is called and the request ends before
\* cleanResumeData and before any backend call
C16_UnsupportedExactlyWhenNoTypeMatches ==
  /\ UnsupportedTypeAnswered =>
       (file # NoFile /\ MatchesNoType(file) /\ DecodeFailed)
  /\ (Has("extractTextFromFile") /\ file # NoFile /\ MatchesNoType(file)) =>
       /\ UnsupportedTypeAnswered
       /\ pc = "finished"
       /\ res.status = 500
       /\ ~Has("pdfParse")
       /\ ~Has("mammoth.extractRawText")
       /\ ~Has("cleanResumeData")
       /\ ~BackendTouched

\* a legacy .doc upload was refused on the streaming route
C16_Witness ==
  /\ IsStream
  /\ file.ext = ".doc"
  /\ file.mimetype = MimeDoc
  /\ UnsupportedTypeAnswered
  /\ pc = "finished"

\* C17: for the same backend output, the artifact the batch path returns
\* and persists is the artifact the relay persists at done, whatever the
\* output, empty and fence-only output included
C17_BatchAndRelayAgree ==
  post.step = 2 =>
    /\ post.batch = post.relay
    /\ post.batchSaved = post.relaySaved

\* C18: on the streaming route, once the event-stream headers are sent or
\* an event is written, no error status and no JSON body is ever sent; and
\* when generateContentStream or the stream it returned raised, the session
\* ends with exactly one error event, which carries a non-empty message
C18_BackendFailureIsErrorEvent ==
  IsStream =>
    /\ (res.sse \/ res.events # <<>>) =>
         (res.body = NoBody /\ res.status = 200)
    /\ stream = "raised" =>
         /\ res.sse
         /\ res.ended
         /\ LastEventKind = "error"
         /\ res.events[Len(res.events)].message # ""
         /\ Cardinality(EventsOfKind("error")) = 1

\* the stream raised an error without message after a fragment had been
\* relayed: the error event carries the fallback message
C18_Witness ==
  /\ IsStream
  /\ stream = "raised"
  /\ EventsOfKind("chunk") # {}
  /\ LastEventKind = "error"
  /\ res.events[Len(res.events)].message = "Stream failed"

\* C19: on the streaming route no event is written before the event-stream
\* headers have been set and flushed
C19_NoEventBeforeHeaders == (IsStream /\ res.events # <<>>) => res.sse

\* no request is inside its PDF branch
NoDecodeInFlight == \A r \in Decoders : decoding[r] # "parsing"

\* C20: whatever the interleaving of the PDF decode steps of several
\* requests, once none of them is in flight console.warn is the original
\* function again, no filter of a finished request is installed, and a
\* warning issued then is printed
C20_WarnSinkRestored ==
  /\ NoDecodeInFlight => console_warn = OriginalWarn
  /\ \A r \in Decoders :
       decoding[r] \in {"returned", "thrown"} => console_warn # r
  /\ \A i \in DOMAIN warnLog :
       warnLog[i].parsing = {} => warnLog[i].printed

\* the payloads of the chunk events written so far, joined in order
RelayedText == JoinTexts(ChunkPayloadsOf(res.events))

\* C21: in a streaming session the buffer is the concatenation, in order, of
\* the payloads of the chunk events written so far; when the stream has
\* ended, the artifact handed to saveGenerationResult, and the artifact of
\* every row written, is that concatenation with the opening fence and the
\* closing fence stripped, then trimmed
C21_BufferIsRelayedText ==
  IsStream =>
    /\ fullHtml = RelayedText
    /\ stream = "ended" => cleanedHtml = StripFences(RelayedText)
    /\ \A i \in DOMAIN generation_results :
         /\ stream = "ended"
         /\ generation_results[i].llm_html = StripFences(RelayedText)

\* an opening fence, a text and a closing fence were relayed as three chunk
\* events, and the row written holds the text alone
C21_Witness ==
  /\ IsStream
  /\ stream = "ended"
  /\ Cardinality(EventsOfKind("chunk")) = 3
  /\ RelayedText = (FenceOpenText \o <<"a">>) \o FenceText
  /\ generation_results # <<>>
  /\ generation_results[1].llm_html = <<"a">>

\* C22: on the streaming route, once the response has been ended nothing is
\* written to it any more, neither by streamWithGemini nor by the route's
\* catch block: the response stays as it is
C22_NoWriteAfterClose ==
  [][(IsStream /\ res.ended) => res' = res]_vars

\* a session closed after its terminal event: the missing-key answer, or
\* an error event after relayed fragments
C22_Witness ==
  /\ IsStream
  /\ res.ended
  /\ pc = "finished"
  /\ LastEventKind = "error"
  /\ EventsOfKind("chunk") # {}

\* number of entries op in the call log
CountOps(op) == Cardinality({i \in DOMAIN ops : ops[i] = op})

\* the generation_results insert of this request has settled without
\* writing a row
InsertFailed ==
  Has("generation_results.insert.settled") /\ generation_results = <<>>

\* C23: when the generation_results insert of a streaming session fails,
\* it was issued exactly once and the session still ends with the done event
C23_FailedInsertStillDone ==
  (IsStream /\ InsertFailed) =>
    /\ CountOps("generation_results.insert") = 1
    /\ CountOps("generation_results.insert.settled") = 1
    /\ pc = "finished"
    /\ res.ended
    /\ LastEventKind = "done"

\* C24: every generation_results row names the model of the backend that
\* produced its artifact: a row under the Gemini model exists only when a
\* Gemini call was made, and an artifact from the Anthropic call is
\* recorded under the Anthropic model
C24_RowNamesProducingModel ==
  \A i \in DOMAIN generation_results :
    /\ generation_results[i].llm_model = ModelGemini
         => (Has("generateContent") \/ Has("generateContentStream"))
    /\ Has("messages.create")
         => generation_results[i].llm_model = ModelAnthropic

\* the step of the pipeline a logged call belongs to: 1 blob store,
\* 2 recordUpload, 3 decoder, 4 normalizer, 5 backend, 6 recordResult
StepOf(op) ==
  CASE op \in {"storage.upload", "storage.createBucket"} -> 1
    [] op = "resume_uploads.insert" -> 2
    [] op \in {"extractTextFromFile", "pdfParse", "pdfParse.rejected",
               "mammoth.extractRawText"} -> 3
    [] op = "cleanResumeData" -> 4
    [] op \in {"generateContent", "messages.create", "generateContentStream"}
         -> 5
    [] OTHER -> 6

\* C25: on both routes the calls of a request are made in the order blob
\* store, recordUpload, decoder, normalizer, backend, recordResult, the
\* insert of the result settling last; and a request whose decode failed or
\* whose cleaned text is empty has issued no generation_results insert and
\* keeps the upload row it wrote
C25_FixedStepOrder ==
  /\ \A i, j \in DOMAIN ops : i < j => StepOf(ops[i]) <= StepOf(ops[j])
  /\ Has("generation_results.insert.settled") =>
       ops[Len(ops)] = "generation_results.insert.settled"
  /\ (DecodeFailed \/ CleanedEmpty) =>
       /\ ~Has("generation_results.insert")
       /\ generation_results = <<>>
       /\ resumeUploadId # NullId =>
            (Len(resume_uploads) = 1 /\ resume_uploads[1].id = resumeUploadId)

\* a request went through all six steps
C25_Witness ==
  /\ Has("storage.upload")
  /\ Has("resume_uploads.insert")
  /\ Has("pdfParse")
  /\ Has("cleanResumeData")
  /\ Has("generateContentStream")
  /\ Has("generation_results.insert.settled")
  /\ Len(generation_results) = 1

\* number of calls among kinds in the call log of one handler
CountCalls(h, kinds) == Cardinality({i \in DOMAIN h.ops : h.ops[i] \in kinds})

\* C26: with several requests handled side by side, in whatever order
\* their steps interleave, each request issues at most one resume_uploads
\* insert, at most one generation call and at most one generation_results
\* insert; so every upload row belongs to one request and has at most one
\* result row
C26_AtMostOnePerRequest ==
  /\ \A r \in Requests :
       /\ CountCalls(handlers[r], {"resume_uploads.insert"}) <= 1
       /\ CountCalls(handlers[r], {"generateContent", "messages.create",
                                   "generateContentStream"}) <= 1
       /\ CountCalls(handlers[r], {"generation_results.insert"}) <= 1
  /\ \A r, s \in Requests :
       (r # s /\ handlers[r].resumeUploadId # NullId)
         => handlers[r].resumeUploadId # handlers[s].resumeUploadId
  /\ \A i, j \in DOMAIN generation_results :
       i # j => generation_results[i].resume_upload_id
                  # generation_results[j].resume_upload_id
  /\ Len(resume_uploads) <= NumRequests
  /\ Len(generation_results) <= Len(resume_uploads)

\* two requests, one on each route, overlapped (the second wrote its
\* upload row before the first generated) and each wrote its one result row
C26_Witness ==
  /\ Len(generation_results) = 2
  /\ handlers[1].route = "/upload"
  /\ handlers[2].route = "/upload-stream"
  /\ handlers[1].resumeUploadId = 1
  /\ handlers[2].resumeUploadId = 2
  /\ generation_results[1].resume_upload_id = 2

\* the sequence a is a prefix of the sequence b
IsPrefix(a, b) == Len(a) <= Len(b) /\ SubSeq(b, 1, Len(a)) = a

\* C27: every step of every handler leaves the stored objects and the rows
\* of both tables as they are, or adds to them: no object is replaced or
\* removed, no row is changed or deleted
C27_StoresAppendOnly ==
  [][/\ objects \subseteq objects'
     /\ IsPrefix(resume_uploads, resume_uploads')
     /\ IsPrefix(generation_results, generation_results')]_vars

\* two requests have each stored an object, an upload row and a result row
C27_Witness ==
  /\ Cardinality(objects) = 2
  /\ Len(resume_uploads) = 2
  /\ Len(generation_results) = 2
  /\ \A r \in {1, 2} : handlers[r].pc = "finished"

\* the decoder takes the PDF branch for f when the parser is installed
PdfTyped(f) == isPdf(f) /\ ~isTxt(f)

C28_SmallPdfRefused ==
  /\ file # NoFile
  /\ PdfTyped(file)
  /\ file.size < 100
  /\ res.body.kind = "error"
  /\ res.body.message = PdfTooSmallMessage

\* C29: in one request the decoder is called at most once, and the PDF and
\* DOCX parsers together are called at most once, on every path
C29_ParserAtMostOnce ==
  /\ CountOps("extractTextFromFile") <= 1
  /\ CountOps("pdfParse") + CountOps("mammoth.extractRawText") <= 1

\* the batch route ended on a failed PDF parse, after exactly one parser call
C29_Witness ==
  /\ ~IsStream
  /\ pc = "finished"
  /\ Has("pdfParse.rejected")
  /\ CountOps("extractTextFromFile") = 1
  /\ CountOps("pdfParse") = 1

\* the messages of the two authentication errors
AuthMessages == {"Invalid Gemini API key.", "Invalid Anthropic API key."}

\* the backend's rejection e is about the credential: status 401, or the
\* message by which the backend in use reports a key it does not accept
IndicatesInvalidCredential(e) ==
  \/ e.status = 401
  \/ SelectBackend = "gemini"
       /\ e.message \in {"API key not valid", "invalid x-api-key"}
  \/ SelectBackend = "anthropic" /\ e.message = "invalid x-api-key"

\* the backend rejected the batch call of the /upload route
BatchBackendFailed == route = "/upload" /\ backendError # NoError

\* a rejected batch call ends the request with an error answer of a status
\* outside 200..299 and a message, and no result row is inserted
C30_FailureIsAnswered ==
  BatchBackendFailed =>
    /\ pc = "finished"
    /\ res.body.kind = "error"
    /\ res.status \notin 200..299
    /\ res.body.message # ""
    /\ ~Has("generation_results.insert")
    /\ generation_results = <<>>

\* C30: when the backend rejects the batch call, the answer carries the
\* authentication message exactly when the rejection is about the
\* credential, and otherwise the status and message of the backend's own
\* error; either way it is an error answer outside 200..299 and no result
\* row is written
C30_AuthErrorExactlyOnBadCredential ==
  BatchBackendFailed =>
    /\ C30_FailureIsAnswered
    /\ IF IndicatesInvalidCredential(backendError)
       THEN res.body.message \in AuthMessages
       ELSE /\ res.body.message =
                 MessageOr(backendError.message, "Failed to generate website")
            /\ res.status = IF backendError.status # 0
                            THEN backendError.status ELSE 500

\* Gemini rejected the call for a malformed argument and the client was told
\* that the key is invalid
C30_ArgumentErrorReportedAsBadKey ==
  /\ BatchBackendFailed
  /\ backendError = Err("invalid argument", 400)
  /\ res.body.message = "Invalid Gemini API key."

\* the calls the step from the current state to the next one adds to the log
NewCalls == SubSeq(ops', Len(ops) + 1, Len(ops'))

\* storeFileInSupabase runs in this step, with a client
StoreStep == pc = "store" /\ supabase /\ pc' # "store"

\* the call sequence of storeFileInSupabase: one upload; createBucket only
\* after an upload that found no bucket; a second upload exactly when the
\* bucket was created; and the stored path is set exactly when an object
\* was stored
C31_CallProtocol ==
  [][StoreStep =>
       /\ NewCalls \in { <<"storage.upload">>,
                         <<"storage.upload", "storage.createBucket">>,
                         <<"storage.upload", "storage.createBucket",
                           "storage.upload">> }
       /\ Len(NewCalls) >= 2 => ~bucketExists
       /\ Len(NewCalls) = 3 <=> (~bucketExists /\ bucketExists')
       /\ (storedPath' # "") <=> (blobs' # blobs)]_vars

\* C31: storeFileInSupabase uploads once, creates the bucket only after an
\* upload that found none and then uploads exactly once more, does not retry
\* when the creation fails; and whenever no object was stored the stored
\* path is absent and the resume_uploads insert is still issued, with a null
\* storage path
C31_PutProtocol ==
  /\ C31_CallProtocol
  /\ [][(StoreStep /\ blobs' = blobs) =>
          (storedPath' = "" /\ pc' = "log")]_vars
  /\ []((Has("storage.upload") /\ blobs = <<>> /\ pc \notin {"store", "log"})
          => Has("resume_uploads.insert"))
  /\ [](\A i \in DOMAIN resume_uploads :
          blobs = <<>> => resume_uploads[i].storage_path = "")

\* the upload rejected and the request ended before the resume_uploads
\* insert
C31_RaisingUploadSkipsInsert ==
  /\ Has("storage.upload")
  /\ blobs = <<>>
  /\ pc = "finished"
  /\ ~Has("resume_uploads.insert")
  /\ res.status = 500

\* x is a string: neither null nor undefined
IsText(x) == x \notin {Null, Absent}

\* x is a string of white space only (the empty string included)
WhitespaceOnly(x) == IsText(x) /\ \A i \in DOMAIN x : IsWs(x[i])

\* C32: for every input, a string or not, cleanResumeData returns a string
\* no longer than the cap plus the marker, and the empty string for an
\* input that is not a string, is empty or holds white space only
C32_CleanTotalAndBounded ==
  probe.applied >= 1 =>
    /\ IsText(probe.once)
    /\ Len(probe.once) <= CapUnderTest + Len(TruncationMarker)
    /\ (~IsText(probe.input) \/ WhitespaceOnly(probe.input))
         => probe.once = <<>>

\* an input with leading white space whose cleaned text was longer than the
\* cap: the result has exactly the greatest length allowed
C32_Witness ==
  /\ probe.applied >= 1
  /\ IsText(probe.input)
  /\ Len(probe.input) > CapUnderTest + 1
  /\ IsWs(probe.input[1])
  /\ Len(probe.once) = CapUnderTest + Len(TruncationMarker)

\* a request of the streaming route has called streamWithGemini without a
\* Gemini key
RelayReachedWithoutKey ==
  /\ IsStream
  /\ ~GEMINI_API_KEY
  /\ Has("cleanResumeData")
  /\ cleanedText # <<>>
  /\ pc \notin {"clean", "relay"}

\* C33: without a Gemini key, a streaming request that reaches
\* streamWithGemini ends with exactly one event, of kind error, on an ended
\* response; no backend is called, whether an Anthropic key is set or not,
\* and no generation_results row is inserted
C33_NoKeyRelayIsOneError ==
  RelayReachedWithoutKey =>
    /\ pc = "finished"
    /\ res.ended
    /\ Len(res.events) = 1
    /\ res.events[1].kind = "error"
    /\ ~Has("generateContentStream")
    /\ ~Has("generateContent")
    /\ ~Has("messages.create")
    /\ ~Has("generation_results.insert")
    /\ generation_results = <<>>

\* the Anthropic key is set, the upload row was inserted, and the session
\* ended with the one error event
C33_Witness ==
  /\ RelayReachedWithoutKey
  /\ SecondaryConfigured
  /\ resumeUploadId # NullId
  /\ Len(resume_uploads) = 1
  /\ res.ended
  /\ LastEventKind = "error"

\* the messages of the three refusals at the head of the two handlers
NoDataMessages ==
  { "No resume file uploaded. Use field name \"resume\".",
    "Uploaded file has no data. Please try again or use a different file.",
    "Uploaded file has no data.",
    "File is empty. Please upload a valid resume file.",
    "File is empty." }

\* no call has been made and no store holds anything
NoSideEffect ==
  /\ ops = <<>>
  /\ blobs = <<>>
  /\ resume_uploads = <<>>
  /\ generation_results = <<>>

\* C34: a handler goes on to the stores only with a file that has data;
\* every other request ends at once with an error answer, of status 400
\* unless the temporary file could not be read, and a request refused for a
\* missing file, missing data or an empty buffer has made no upload, no
\* insert, no decode and no backend call
C34_NoDataRejectedFirst ==
  /\ [][(pc = "idle" /\ pc' # "idle") =>
          IF pc' = "store"
          THEN file' # NoFile /\ file'.size > 0 /\ res' = res
          ELSE /\ pc' = "finished"
               /\ res'.body.kind = "error"
               /\ res'.status = 400 \/ res'.body.message = "ENOENT"
               /\ res'.status = 400 => res'.body.message \in NoDataMessages
               /\ NoSideEffect']_vars
  /\ []((res.status = 400 /\ res.body.message \in NoDataMessages)
          => (pc = "finished" /\ NoSideEffect))

\* with the store client configured, the streaming route refused a temporary
\* file that was read as an empty buffer
C34_Witness ==
  /\ IsStream
  /\ supabase
  /\ pc = "finished"
  /\ res.status = 400
  /\ res.body.message = "File is empty."
  /\ NoSideEffect

\* f is text, PDF, DOCX by its declared type or by its extension
MatchesText(f) == f.mimetype = MimeTxt \/ f.ext = ".txt"
MatchesPdf(f) == f.mimetype = MimePdf \/ f.ext = ".pdf"
MatchesDocx(f) == f.mimetype = MimeDocx \/ f.ext = ".docx"

\* the parser calls made by the decode under test
DecodedCalls == decoded.result.calls

\* the decoder answers a text input with its bytes, whatever else it is
TextReturnedVerbatim ==
  (decoded.done /\ MatchesText(decoded.file)) =>
    /\ decoded.result.ok
    /\ decoded.result.text = decoded.file.text
    /\ DecodedCalls = <<>>

\* C35: text wins over PDF and PDF over DOCX: an input that is text by type
\* or extension is returned as it is without a parser call, and an input
\* that is PDF by type or extension and not text never reaches the DOCX
\* parser
C35_FixedPrecedence ==
  /\ TextReturnedVerbatim
  /\ (decoded.done /\ ~MatchesText(decoded.file) /\ MatchesPdf(decoded.file)) =>
       \A i \in DOMAIN DecodedCalls :
         DecodedCalls[i] # "mammoth.extractRawText"

\* C35 amended: the precedence is over the parsers that are installed: text
\* wins always and is returned as it is without a parser call; PDF wins
\* over DOCX when pdf-parse is installed; without pdf-parse an input that
\* is PDF by one attribute and DOCX by the other goes to mammoth when that
\* is installed; in each branch the result is the one of that branch alone
C35_PrecedenceAmongInstalled ==
  decoded.done =>
    LET f == decoded.file
        r == decoded.result
    IN  /\ TextReturnedVerbatim
        /\ (~MatchesText(f) /\ MatchesPdf(f) /\ pdfParse) =>
             r.calls \in { <<>>, <<"pdfParse">>,
                           <<"pdfParse", "pdfParse.rejected">> }
        /\ (~MatchesText(f) /\ MatchesPdf(f) /\ pdfParse) =>
             (r.calls = <<>> <=> f.size < 100)
        /\ (~MatchesText(f) /\ MatchesDocx(f) /\ mammoth /\ ~(MatchesPdf(f) /\ pdfParse)) =>
             /\ r.calls = <<"mammoth.extractRawText">>
             /\ r.ok = decoded.answer.ok
        /\ (~MatchesText(f) /\ ~(MatchesPdf(f) /\ pdfParse) /\ ~(MatchesDocx(f) /\ mammoth)) =>
             /\ ~r.ok
             /\ r.calls = <<>>

\* a file named .docx and declared as text, with both parsers installed, was
\* returned as it is
C35_Witness ==
  /\ decoded.done
  /\ decoded.file.ext = ".docx"
  /\ decoded.file.mimetype = MimeTxt
  /\ pdfParse
  /\ mammoth
  /\ decoded.result.ok
  /\ decoded.result.text = decoded.file.text

\* without pdf-parse, a file declared as PDF and named .docx was read by
\* mammoth
C35_PdfTypedReadByMammoth ==
  /\ decoded.done
  /\ decoded.file.mimetype = MimePdf
  /\ decoded.file.ext = ".docx"
  /\ ~pdfParse
  /\ decoded.result.ok
  /\ DecodedCalls = <<"mammoth.extractRawText">>

\* the row was written by request r: it carries the upload id r was given,
\* r has issued the insert, and its artifact is the one r built, made of
\* the fragments sent for r only
WrittenBy(row, r) ==
  /\ handlers[r].resumeUploadId # NullId
  /\ row.resume_upload_id = handlers[r].resumeUploadId
  /\ CountCalls(handlers[r], {"generation_results.insert"}) = 1
  /\ row.llm_html = handlers[r].html
  /\ \A k \in DOMAIN row.llm_html : row.llm_html[k] = FragmentOf(r)

\* C36: however the steps of the requests interleave, every
\* generation_results row carries the upload id that logResumeUpload gave
\* to the request that wrote it, and an artifact made of that request's
\* fragments only
C36_RowsBelongToTheirRequest ==
  \A i \in DOMAIN generation_results :
    \E r \in Requests : WrittenBy(generation_results[i], r)

\* two streaming requests overlapped: the second to log its upload was the
\* first to save, and each row holds the two fragments of its own request
C36_Witness ==
  /\ handlers[1].route = "/upload-stream"
  /\ handlers[2].route = "/upload-stream"
  /\ Len(generation_results) = 2
  /\ generation_results[1].resume_upload_id = 2
  /\ generation_results[1].llm_html = <<"b", "b">>
  /\ generation_results[2].resume_upload_id = 1
  /\ generation_results[2].llm_html = <<"a", "a">>

====
